---- MODULE Spec2Model ----
(***************************************************************************)
(* The CST engine of the coaching chatbox: the delta mini-language parser  *)
(* and the state merge engine of agents/generator.py, with the             *)
(* append-policy schema variant of agents/prompt_helper.py.                *)
(*                                                                         *)
(* Python objects are modelled as tagged records.  Dictionaries live in a  *)
(* heap (a sequence of dict objects addressed by their index) so that      *)
(* aliasing between the caller's tree and the returned tree is what the    *)
(* code makes it: dict(x) is a shallow copy, setdefault and item           *)
(* assignment mutate the object they are called on.  A dict keeps its      *)
(* insertion order (order) next to its contents (map).                     *)
(***************************************************************************)
EXTENDS Integers, Sequences, FiniteSets, TLC

VARIABLES
    variant,    \* which module is running: "generator" or "prompt_helper"
    domOrder,   \* iteration order of the set ALLOWED_DOMAINS in this run
    cur,        \* the tree the caller holds and passes to the next call
    op,         \* the last operation called
    arg,        \* its second argument (delta text or delta list), if any
    pre,        \* the tree argument as it was before the call
    post,       \* the same tree object as the caller sees it after the call
    out,        \* outcome of the call: [err, val]
    calls,      \* number of calls made so far
    app         \* the files of the chat application and the state of its
                \* chat tab (logic/logic_chat.py), where the engine runs
                \* inside the application

vars == <<variant, domOrder, cur, op, arg, pre, post, out, calls, app>>

----------------------------------------------------------------------------
(* Bounds *)

\* calls in one run of agents/generator.py
MaxCalls == 2
\* calls in one run of agents/prompt_helper.py
MaxHelperCalls == 1
\* deltas in one raw update list handed to the validator
MaxRaw == 2
\* calls in one run of a caller that passes every extractor output on
MaxTextCalls == 2

\* conversations a user starts
MaxSessions == 2
\* messages in one conversation
MaxTurns == 2
\* days the application is used on
MaxDays == 2

----------------------------------------------------------------------------
(* Python values *)

PyNone == [k |-> "none"]
PyStr(s) == [k |-> "str", s |-> s]
PyInt(n) == [k |-> "int", n |-> n]
PyList(items) == [k |-> "list", items |-> items]
\* a dict as a value (deep): insertion order of the keys, and key -> value
PyDict(order, map) == [k |-> "dict", order |-> order, map |-> map]
\* a dict as a reference into the heap
Ref(a) == [k |-> "ref", a |-> a]
\* a list of (path, value) tuples, as the argument or the result of a call
PyDeltas(ds) == [k |-> "deltas", items |-> ds]

EmptyMap == [x \in {} |-> PyNone]
EmptyDict == PyDict(<<>>, EmptyMap)

\* a dict object of the heap: [order, map]
NewObj == [order |-> <<>>, map |-> EmptyMap]

ObjHas(o, key) == key \in DOMAIN o.map

ObjSet(o, key, v) ==
    [order |-> IF ObjHas(o, key) THEN o.order ELSE Append(o.order, key),
     map |-> [x \in (DOMAIN o.map) \cup {key} |-> IF x = key THEN v ELSE o.map[x]]]

\* dict literal helper for deep values: keys in the order given
RECURSIVE MkDict(_, _)
MkDict(keys, vals) ==
    IF keys = <<>> THEN EmptyDict
    ELSE LET n == Len(keys)
             d == MkDict(SubSeq(keys, 1, n - 1), SubSeq(vals, 1, n - 1))
             o == ObjSet([order |-> d.order, map |-> d.map], keys[n], vals[n])
         IN  PyDict(o.order, o.map)

\* Python's == on values: dict equality ignores insertion order
RECURSIVE PyEq(_, _)
PyEq(a, b) ==
    IF a.k # b.k THEN FALSE
    ELSE IF a.k = "dict"
         THEN /\ DOMAIN a.map = DOMAIN b.map
              /\ \A x \in DOMAIN a.map : PyEq(a.map[x], b.map[x])
         ELSE a = b

\* bool(v) for a heap value
Truthy(heap, v) ==
    CASE v.k = "none" -> FALSE
      [] v.k = "str"  -> v.s # ""
      [] v.k = "int"  -> v.n # 0
      [] v.k = "list" -> v.items # <<>>
      [] v.k = "ref"  -> heap[v.a].order # <<>>

----------------------------------------------------------------------------
(* The heap.  An execution state e is [heap, err, val]: err = "" while no  *)
(* exception is in flight, val is the value of the last expression.        *)

NoErr == ""

Exec(heap, err, val) == [heap |-> heap, err |-> err, val |-> val]

Raise(e, name) == Exec(e.heap, name, PyNone)

\* {} : a new empty dict object
Alloc(e, o) == Exec(Append(e.heap, o), e.err, Ref(Len(e.heap) + 1))

\* the least and the greatest element of a non-empty set of integers
Min(S) == CHOOSE x \in S : \A y \in S : x <= y

\* the paths of the dicts inside a deep value, <<>> for the value itself
RECURSIVE DictPaths(_)
DictPaths(v) ==
    IF v.k # "dict" THEN {}
    ELSE {<<>>} \cup UNION {{<<key>> \o p : p \in DictPaths(v.map[key])} :
                                key \in DOMAIN v.map}

RECURSIVE NodeAt(_, _)
NodeAt(v, p) == IF p = <<>> THEN v ELSE NodeAt(v.map[Head(p)], Tail(p))

\* the elements of a finite set in some order
RECURSIVE SetToSeq(_)
SetToSeq(S) ==
    IF S = {} THEN <<>>
    ELSE LET x == CHOOSE x \in S : TRUE
         IN  <<x>> \o SetToSeq(S \ {x})

\* the heap object of the dict d found at path p, when the dict found at
\* path q lives at address at[q]
ObjOf(d, p, at) ==
    [order |-> d.order,
     map |-> [key \in DOMAIN d.map |->
                IF d.map[key].k = "dict" THEN Ref(at[p \o <<key>>]) ELSE d.map[key]]]

\* a deep value in a fresh heap, one object per dict
Load(v) ==
    IF v.k # "dict" THEN Exec(<<>>, NoErr, v)
    ELSE LET paths == SetToSeq(DictPaths(v))
             at == [p \in DictPaths(v) |-> CHOOSE i \in 1..Len(paths) : paths[i] = p]
         IN  Exec([a \in 1..Len(paths) |-> ObjOf(NodeAt(v, paths[a]), paths[a], at)],
                  NoErr, Ref(at[<<>>]))

\* read a heap value back as a deep value
RECURSIVE Deep(_, _)
Deep(heap, v) ==
    IF v.k = "ref"
    THEN LET o == heap[v.a]
         IN  PyDict(o.order, [x \in DOMAIN o.map |-> Deep(heap, o.map[x])])
    ELSE v

----------------------------------------------------------------------------
(* dict operations, as CPython performs them *)

\* dict(x): a shallow copy of a dict; of another iterable, a dict built from
\* its items, each of which must be an iterable of length 2
RECURSIVE PairsToObj(_, _, _)
PairsToObj(items, i, o) ==
    IF i > Len(items) THEN o
    ELSE PairsToObj(items, i + 1,
                    ObjSet(o, SubSeq(items[i].s, 1, 1), PyStr(SubSeq(items[i].s, 2, 2))))

dict_of(e, x) ==
    IF e.err # NoErr THEN e
    ELSE CASE x.k = "ref"  -> Alloc(e, e.heap[x.a])
           [] x.k = "list" ->
                IF \A i \in 1..Len(x.items) : x.items[i].k = "str" /\ Len(x.items[i].s) = 2
                THEN Alloc(e, PairsToObj(x.items, 1, NewObj))
                ELSE IF \E i \in 1..Len(x.items) : x.items[i].k \in {"int", "none"}
                     THEN Raise(e, "TypeError")
                     ELSE Raise(e, "ValueError")
           [] x.k = "str"  -> IF x.s = "" THEN Alloc(e, NewObj) ELSE Raise(e, "ValueError")
           [] x.k \in {"int", "none"} -> Raise(e, "TypeError")

\* dict(x or {})
dict_of_or_empty(e, x) ==
    IF e.err # NoErr THEN e
    ELSE IF Truthy(e.heap, x) THEN dict_of(e, x) ELSE Alloc(e, NewObj)

\* target.setdefault(key, default); on anything but a dict: AttributeError
setdefault(e, target, key, default) ==
    IF e.err # NoErr THEN e
    ELSE IF target.k # "ref" THEN Raise(e, "AttributeError")
    ELSE LET o == e.heap[target.a]
         IN  IF ObjHas(o, key) THEN Exec(e.heap, e.err, o.map[key])
             ELSE Exec([e.heap EXCEPT ![target.a] = ObjSet(o, key, default)], e.err, default)

\* target.setdefault(key, {})
setdefault_newdict(e, target, key) ==
    IF e.err # NoErr THEN e
    ELSE IF target.k # "ref" THEN Raise(e, "AttributeError")
    ELSE IF ObjHas(e.heap[target.a], key) THEN Exec(e.heap, e.err, e.heap[target.a].map[key])
    ELSE LET a == Alloc(e, NewObj)
         IN  Exec([a.heap EXCEPT ![target.a] = ObjSet(a.heap[target.a], key, a.val)],
                  e.err, a.val)

\* target[key] = v   (target is a dict)
setitem(e, target, key, v) ==
    IF e.err # NoErr THEN e
    ELSE Exec([e.heap EXCEPT ![target.a] = ObjSet(e.heap[target.a], key, v)], e.err, v)


\* target.get(key)
dict_get(e, target, key) ==
    IF ObjHas(e.heap[target.a], key) THEN e.heap[target.a].map[key] ELSE PyNone

----------------------------------------------------------------------------
(* Python strings.  A string is a TLA+ string; Ch(s, i) is s[i-1].         *)

Ch(s, i) == SubSeq(s, i, i)

UpperChars == "ABCDEFGHIJKLMNOPQRSTUVWXYZ"
LowerChars == "abcdefghijklmnopqrstuvwxyz"
DigitChars == "0123456789"

CharsOf(s) == {Ch(s, i) : i \in 1..Len(s)}

LowerOf == [c \in CharsOf(UpperChars) |->
              Ch(LowerChars, CHOOSE i \in 1..26 : Ch(UpperChars, i) = c)]
UpperOf == [c \in CharsOf(LowerChars) |->
              Ch(UpperChars, CHOOSE i \in 1..26 : Ch(LowerChars, i) = c)]

\* \s of the re module and the characters str.strip() removes
SpaceChars == {" ", "\t", "\n", "\r", "\f"}
\* [A-Za-z_]
AlphaUnderscore == CharsOf(UpperChars) \cup CharsOf(LowerChars) \cup {"_"}
\* \w of a str pattern: Unicode word characters; "ƒ" is the one letter outside
\* ASCII in the texts of the model
WordChars == AlphaUnderscore \cup CharsOf(DigitChars) \cup {"ƒ"}

\* the recursions over a string halve it, so that their depth stays small
RECURSIVE lower(_)
lower(s) ==
    IF Len(s) = 0 THEN ""
    ELSE IF Len(s) = 1 THEN (IF s \in DOMAIN LowerOf THEN LowerOf[s] ELSE s)
    ELSE LET h == Len(s) \div 2
         IN  lower(SubSeq(s, 1, h)) \o lower(SubSeq(s, h + 1, Len(s)))

RECURSIVE upper(_)
upper(s) ==
    IF Len(s) = 0 THEN ""
    ELSE IF Len(s) = 1 THEN (IF s \in DOMAIN UpperOf THEN UpperOf[s] ELSE s)
    ELSE LET h == Len(s) \div 2
         IN  upper(SubSeq(s, 1, h)) \o upper(SubSeq(s, h + 1, Len(s)))

\* number of characters of s from position i on that lie in set cs
Run(s, i, cs) ==
    LET stop == {j \in i..Len(s) : Ch(s, j) \notin cs}
    IN  IF i > Len(s) THEN 0
        ELSE IF stop = {} THEN Len(s) + 1 - i ELSE Min(stop) - i

\* number of characters of s up to position i, going backwards, that lie in cs
RunBack(s, i, cs) ==
    LET stop == {j \in 1..i : Ch(s, j) \notin cs}
    IN  IF i < 1 THEN 0
        ELSE IF stop = {} THEN i ELSE i - (CHOOSE x \in stop : \A y \in stop : x >= y)

lstrip_chars(s, cs) == SubSeq(s, 1 + Run(s, 1, cs), Len(s))
rstrip_chars(s, cs) == SubSeq(s, 1, Len(s) - RunBack(s, Len(s), cs))

strip(s) == rstrip_chars(lstrip_chars(s, SpaceChars), SpaceChars)

\* s * n
RECURSIVE Repeat(_, _)
Repeat(s, n) ==
    IF n <= 0 THEN ""
    ELSE IF n = 1 THEN s
    ELSE Repeat(s, n \div 2) \o Repeat(s, n - n \div 2)

\* s[i-1:].startswith(p)
StartsAt(s, i, p) == i + Len(p) - 1 <= Len(s) /\ SubSeq(s, i, i + Len(p) - 1) = p
\* the same, ignoring case
StartsAtNoCase(s, i, p) ==
    i + Len(p) - 1 <= Len(s) /\ lower(SubSeq(s, i, i + Len(p) - 1)) = lower(p)

\* s.find(p, i-1) + 1: the first position >= i where p starts, 0 if none
Find(s, i, p) ==
    LET hits == {j \in i..(Len(s) - Len(p) + 1) : StartsAt(s, j, p)}
    IN  IF hits = {} THEN 0 ELSE Min(hits)

FindNoCase(s, i, p) ==
    LET hits == {j \in i..(Len(s) - Len(p) + 1) : StartsAtNoCase(s, j, p)}
    IN  IF hits = {} THEN 0 ELSE Min(hits)

\* s.replace(old, new), old not empty
RECURSIVE ReplaceFrom(_, _, _, _)
ReplaceFrom(s, i, old, new) ==
    LET j == Find(s, i, old)
    IN  IF j = 0 THEN SubSeq(s, i, Len(s))
        ELSE SubSeq(s, i, j - 1) \o new \o ReplaceFrom(s, j + Len(old), old, new)

replace(s, old, new) == ReplaceFrom(s, 1, old, new)

\* s.split(sep), sep not empty
RECURSIVE split(_, _)
split(s, sep) ==
    LET j == Find(s, 1, sep)
    IN  IF j = 0 THEN <<s>>
        ELSE <<SubSeq(s, 1, j - 1)>> \o split(SubSeq(s, j + Len(sep), Len(s)), sep)

\* a split that keeps the text whole
splitlines_Whole(s) == <<s>>

\* s.splitlines(): the line boundaries are "\n", "\r" and "\f"; no empty
\* last line, "\r\n" is one boundary
RECURSIVE splitlines(_)
splitlines(s) ==
    IF s = "" THEN <<>>
    ELSE LET n == Len(s) - Run(s, 1, CharsOf(s) \ {"\n", "\r", "\f"})
             j == Len(s) - n + 1
         IN  IF n = 0 THEN <<s>>
             ELSE LET skip == IF Ch(s, j) = "\r" /\ StartsAt(s, j + 1, "\n") THEN 2 ELSE 1
                  IN  <<SubSeq(s, 1, j - 1)>> \o splitlines(SubSeq(s, j + skip, Len(s)))

\* \b at the gap before position i
WordBoundary(s, i) ==
    LET before == i > 1 /\ Ch(s, i - 1) \in WordChars
        after == i <= Len(s) /\ Ch(s, i) \in WordChars
    IN  before # after

----------------------------------------------------------------------------
(* Fixed schema of the two modules *)

ALLOWED_DOMAINS(m) ==
    IF m = "generator" THEN {"activity", "nutrition", "sleep"}
    ELSE {"activity", "nutrition", "sleep", "tracking"}

ALLOWED_GOAL_KEYS(m) ==
    IF m = "generator" THEN {"Specific", "Measurable", "Attainable", "Reward", "Timeframe"}
    ELSE {"Specific", "Measure", "Attainable", "Reward", "Timeframe"}

ALLOWED_LEAVES(m, root) ==
    IF m = "generator"
    THEN IF root = "session" THEN {"session_timestamp", "agenda"}
         ELSE {"existing_plan", "progress", "barrier", "goal_set"}
    ELSE IF root = "session" THEN {"agenda"}
         ELSE {"fact", "goal_set", "barrier"}

\* ALLOWED_GOAL_KEYS as a list, in the order of its literal
GoalKeyOrder(m) ==
    IF m = "generator" THEN <<"Specific", "Measurable", "Attainable", "Reward", "Timeframe">>
    ELSE <<"Specific", "Measure", "Attainable", "Reward", "Timeframe">>

\* the orders in which "for dom in ALLOWED_DOMAINS" can visit the domains
DomainOrders(m) ==
    LET S == ALLOWED_DOMAINS(m)
        n == Cardinality(S)
    IN  {f \in [1..n -> S] : \A i, j \in 1..n : i # j => f[i] # f[j]}

\* the default of a leaf
LeafDefault(m) == IF m = "generator" THEN PyStr("") ELSE PyStr("None")

\* sorted(ALLOWED_DOMAINS)
SortedDomains == PyList(<<PyStr("activity"), PyStr("nutrition"), PyStr("sleep")>>)

----------------------------------------------------------------------------
(* Shape Normalizer *)

\* target[key] = default for each key of keys: defaults that overwrite
SetDefaults_Overwrite(e, target, keys, default) ==
    IF e.err # NoErr THEN e
    ELSE IF target.k # "ref" THEN Raise(e, "AttributeError")
    ELSE LET o == e.heap[target.a]
             missing(key) == ~ObjHas(o, key)
             added == SelectSeq(keys, missing)
             new == [order |-> o.order \o added,
                     map |-> [x \in (DOMAIN o.map) \cup {keys[i] : i \in 1..Len(keys)} |->
                                IF \E i \in 1..Len(keys) : keys[i] = x THEN default
                                ELSE o.map[x]]]
         IN  Exec([e.heap EXCEPT ![target.a] = new], e.err, default)

\* target.setdefault(key, default) for each key of keys, in their order
SetDefaults(e, target, keys, default) ==
    IF e.err # NoErr THEN e
    ELSE IF target.k # "ref" THEN Raise(e, "AttributeError")
    ELSE LET o == e.heap[target.a]
             missing(key) == ~ObjHas(o, key)
             added == SelectSeq(keys, missing)
             new == [order |-> o.order \o added,
                     map |-> [x \in (DOMAIN o.map) \cup {added[i] : i \in 1..Len(added)} |->
                                IF ObjHas(o, x) THEN o.map[x] ELSE default]]
         IN  Exec([e.heap EXCEPT ![target.a] = new], e.err, new.map[keys[Len(keys)]])

\* the value of target[key] when target is a dict holding key
ItemOf(e, target, key) ==
    IF e.err = NoErr /\ target.k = "ref" /\ ObjHas(e.heap[target.a], key)
    THEN e.heap[target.a].map[key] ELSE PyNone

\* e with value v, unless an exception is in flight
Return(e, v) == IF e.err # NoErr THEN e ELSE Exec(e.heap, NoErr, v)

\* _ensure_domain without its loop over ALLOWED_GOAL_KEYS: the goal keys are
\* left as the input has them
GoalSetDefaults_Omitted(m, ord, e, dd) == e

\* for k in ALLOWED_GOAL_KEYS: d["goal_set"].setdefault(k, default), in the
\* run that visits the domains in the order ord.  Both sets are iterated in
\* the order the hash seed of the run gives them; the runs modelled visit
\* the goal keys forwards when "activity" is the first domain, backwards
\* otherwise
GoalSetDefaults(m, ord, e, dd) ==
    SetDefaults(e, ItemOf(e, dd, "goal_set"),
                IF ord[1] = "activity" THEN GoalKeyOrder(m)
                ELSE [i \in 1..Len(GoalKeyOrder(m)) |->
                         GoalKeyOrder(m)[Len(GoalKeyOrder(m)) + 1 - i]],
                LeafDefault(m))

\* _ensure_domain after d = dict(d or {}), whose outcome is e0
DomainDefaults(m, ord, e0) ==
    LET dd == e0.val
        e1 == SetDefaults(e0, dd,
                          IF m = "generator" THEN <<"existing_plan", "progress">>
                          ELSE <<"fact">>,
                          LeafDefault(m))
        e2 == setdefault_newdict(e1, dd, "goal_set")
        e3 == GoalSetDefaults(m, ord, e2, dd)
        e4 == setdefault(e3, dd, "barrier", LeafDefault(m))
    IN  Return(e4, dd)

_ensure_domain(m, ord, e, d) ==
    IF e.err # NoErr THEN e ELSE DomainDefaults(m, ord, dict_of_or_empty(e, d))

\* target[key] = the value e carries
StoreValue(e, target, key) == setitem(e, target, key, e.val)

\* for dom in ALLOWED_DOMAINS: st[dom] = _ensure_domain(st.get(dom))
RECURSIVE EnsureDomains(_, _, _, _, _)
EnsureDomains(m, ord, e, st, i) ==
    IF i > Len(ord) \/ e.err # NoErr THEN e
    ELSE EnsureDomains(m, ord,
                       StoreValue(_ensure_domain(m, ord, e, dict_get(e, st, ord[i])), st, ord[i]),
                       st, i + 1)

\* week, day, patient and status, which only prompt_helper.py defaults
RootDefaults(m, e, st) ==
    LET p1 == setdefault(e, st, "week", PyInt(1))
        p2 == setdefault(p1, st, "day", PyInt(1))
        p3 == setdefault_newdict(p2, st, "patient")
        p4 == setdefault_newdict(p3, st, "status")
    IN  IF m = "generator" THEN e ELSE p4

\* st["session"].setdefault(...) for the leaves of the session
SessionDefaults(m, e, st) ==
    LET g == setdefault(e, ItemOf(e, st, "session"), "session_timestamp", PyStr(""))
    IN  setdefault(IF m = "generator" THEN g ELSE e,
                   ItemOf(e, st, "session"), "agenda",
                   IF m = "generator"
                   THEN PyStr("Choose one domain to focus on: activity, meal/nutrition, or sleep.")
                   ELSE PyStr("Choose one domain to focus on: activity, meal/nutrition, or tracking habits"))

\* allowed_domains assigned from the domains the tree holds before the loop
\* over ALLOWED_DOMAINS has added the missing ones
AllowedDomainsDefault_FromTree(m, e, st) ==
    LET present(d) == ObjHas(e.heap[st.a], d.s)
    IN  IF m = "generator" /\ e.err = NoErr
        THEN setitem(e, st, "allowed_domains", PyList(SelectSeq(SortedDomains.items, present)))
        ELSE e

\* allowed_domains, which only generator.py defaults
AllowedDomainsDefault(m, e, st) ==
    IF m = "generator" THEN setdefault(e, st, "allowed_domains", SortedDomains) ELSE e

\* ensure_fixed_state_shape after st = dict(state or {}), whose outcome is e0
ShapeDefaults(m, ord, e0) ==
    LET st == e0.val
        e1 == setdefault_newdict(RootDefaults(m, e0, st), st, "session")
        e2 == SessionDefaults(m, e1, st)
        e3 == AllowedDomainsDefault(m, e2, st)
        e4 == EnsureDomains(m, ord, e3, st, 1)
    IN  Return(e4, st)

ensure_fixed_state_shape(m, ord, e, state) ==
    IF e.err # NoErr THEN e ELSE ShapeDefaults(m, ord, dict_of_or_empty(e, state))

----------------------------------------------------------------------------
(* The regular expressions of the parser.  MatchLen(pat, s, i) is the      *)
(* length of the match of pattern pat that starts at position i of s, and  *)
(* 0 when there is none (no pattern here matches the empty string).        *)

\* the position after \s* read from position i
SkipSpace(s, i) == i + Run(s, i, SpaceChars)

\* <\s*(_?STATE)\s*>  and  <\s*/\s*(_?STATE)\s*> , IGNORECASE.
\* b: the position after /\s* of a closing tag, read after <\s* (0 if there
\* is no slash; an opening tag has nothing to read there); end: the position
\* after (_?STATE)\s*> read from b (0 if none)
TagMatchLen(s, i, closing) ==
    IF ~StartsAt(s, i, "<") THEN 0
    ELSE LET a == SkipSpace(s, i + 1)
             b == IF ~closing THEN a
                  ELSE IF StartsAt(s, a, "/") THEN SkipSpace(s, a + 1) ELSE 0
             c == IF StartsAt(s, b, "_") THEN b + 1 ELSE b
             end == IF /\ b # 0 /\ StartsAtNoCase(s, c, "STATE")
                       /\ StartsAt(s, SkipSpace(s, c + 5), ">")
                    THEN SkipSpace(s, c + 5) + 1 ELSE 0
         IN  IF end = 0 THEN 0 ELSE end - i

\* a pattern that matches no comma
CommaMatchLen_Never(s, i) == 0

\* ,\s*(?=(?:[A-Za-z_]+\s*->)|</STATE>)
CommaMatchLen(s, i) ==
    IF ~StartsAt(s, i, ",") THEN 0
    ELSE LET a == i + 1 + Run(s, i + 1, SpaceChars)
             w == Run(s, a, AlphaUnderscore)
             b == a + w + Run(s, a + w, SpaceChars)
         IN  IF (w > 0 /\ StartsAt(s, b, "->")) \/ StartsAt(s, a, "</STATE>")
             THEN a - i ELSE 0

\* the length of the match of pat at position i of s, 0 if there is none:
\*   arrow      \s*->\s*
\*   twopart    \b<first>[_\-\s]*<second>\b , IGNORECASE, first one of
\*              several spellings
\*   recording  \brecord\s*ing\b , IGNORECASE
\*   word       \b<word>\b , IGNORECASE
MatchLen(pat, s, i) ==
    CASE pat.kind \in {"open", "close"} -> TagMatchLen(s, i, pat.kind = "close")
      [] pat.kind = "arrow" ->
            LET a == i + Run(s, i, SpaceChars)
            IN  IF StartsAt(s, a, "->") THEN a + 2 + Run(s, a + 2, SpaceChars) - i ELSE 0
      [] pat.kind = "comma" -> CommaMatchLen(s, i)
      [] pat.kind = "twopart" ->
            IF ~WordBoundary(s, i) THEN 0
            ELSE LET hit == {f \in pat.firsts :
                               LET a == i + Len(f)
                                   b == a + Run(s, a, {"_", "-"} \cup SpaceChars)
                               IN  /\ StartsAtNoCase(s, i, f)
                                   /\ StartsAtNoCase(s, b, pat.second)
                                   /\ WordBoundary(s, b + Len(pat.second))}
                 IN  IF hit = {} THEN 0
                     ELSE LET f == CHOOSE f \in hit : TRUE
                              a == i + Len(f)
                          IN  a + Run(s, a, {"_", "-"} \cup SpaceChars) + Len(pat.second) - i
      [] pat.kind = "recording" ->
            LET a == i + 6 + Run(s, i + 6, SpaceChars)
            IN  IF /\ WordBoundary(s, i) /\ StartsAtNoCase(s, i, "record")
                   /\ StartsAtNoCase(s, a, "ing") /\ WordBoundary(s, a + 3)
                THEN a + 3 - i ELSE 0
      [] pat.kind = "word" ->
            IF /\ WordBoundary(s, i) /\ StartsAtNoCase(s, i, pat.word)
               /\ WordBoundary(s, i + Len(pat.word))
            THEN Len(pat.word) ELSE 0

\* re.sub(pat, repl, s): leftmost matches, left to right, not overlapping

\* the leftmost of a non-empty set of matches
Leftmost(hits) == CHOOSE h \in hits : \A g \in hits : h.at <= g.at

RECURSIVE ReSubFrom(_, _, _, _)
RECURSIVE ReSubHits(_, _, _, _, _)
ReSubHits(pat, repl, s, i, hits) ==
    IF hits = {} THEN SubSeq(s, i, Len(s))
    ELSE SubSeq(s, i, Leftmost(hits).at - 1) \o repl
         \o ReSubFrom(pat, repl, s, Leftmost(hits).at + Leftmost(hits).len)
\* from position i on, with the matches of pat in s that start there or later
ReSubFrom(pat, repl, s, i) ==
    ReSubHits(pat, repl, s, i,
              {h \in {[at |-> j, len |-> MatchLen(pat, s, j)] : j \in i..Len(s)} : h.len > 0})

----------------------------------------------------------------------------
(* Tag Normalizer and Text Sanitizer *)

\* the rewrites in order, each applied to the result of the one before: a
\* str.replace, a strip of commas and blanks, or a re.sub of one of the
\* patterns above; no rewrite turns the empty string into anything else
RECURSIVE RewriteAll(_, _, _)
RewriteAll(steps, i, s) ==
    IF s = "" \/ i > Len(steps) THEN s
    ELSE RewriteAll(steps, i + 1,
            CASE steps[i].kind = "replace" -> replace(s, steps[i].old, steps[i].new)
              [] steps[i].kind = "lstrip"  -> lstrip_chars(s, {","} \cup SpaceChars)
              [] steps[i].kind = "rstrip"  -> rstrip_chars(s, {","} \cup SpaceChars)
              [] OTHER                     -> ReSubFrom(steps[i], steps[i].new, s, 1))

_normalize_state_tags(s) ==
    RewriteAll(<<[kind |-> "open", new |-> "<STATE>"],
                 [kind |-> "close", new |-> "</STATE>"]>>, 1, s)

\* Code points a TLA+ string literal cannot hold, each written as a
\* character that occurs nowhere else in the texts of the model
ZWSP == "¤"     \* U+200B zero width space

RECURSIVE ReplaceSteps(_, _)
ReplaceSteps(table, i) ==
    IF i > Len(table) THEN <<>>
    ELSE <<[kind |-> "replace", old |-> table[i][1], new |-> table[i][2]]>>
         \o ReplaceSteps(table, i + 1)

\* _to_ascii with its replacement table: generator.py holds the mis-encoded
\* byte sequences, prompt_helper.py the Unicode look-alikes
_to_ascii(m, s) ==
    RewriteAll(ReplaceSteps(
        IF m = "generator"
        THEN << <<"ƒ?o", "\"">>, <<"ƒ??", "\"">>, <<"ƒ?T", "'">>, <<"ƒ+'", "->">>,
                <<ZWSP, "">> >>
        ELSE << <<"«", "\"">>, <<"»", "\"">>, <<"´", "'">>, <<"¯", "-">>,
                <<"¬", "-">>, <<"→", "->">>, <<"➔", "->">>, <<"→", "->">>,
                <<"¯>", "->">>, <<"¬>", "->">>, <<ZWSP, "">> >>, 1), 1, s)

\* re.sub(r"\b<word>\b", word, s, flags=IGNORECASE) for each word
RECURSIVE WordSteps(_, _)
WordSteps(words, i) ==
    IF i > Len(words) THEN <<>>
    ELSE <<[kind |-> "word", word |-> words[i], new |-> words[i]]>> \o WordSteps(words, i + 1)

DomainWords(m) ==
    IF m = "generator" THEN <<"activity", "nutrition", "sleep">>
    ELSE <<"activity", "nutrition", "sleep", "tracking">>

\* the rewrites of _sanitize_updates_text after _to_ascii
\* (the substitutions for the goal keys and the domains act on distinct words
\* and commute, so one order of each set stands for every run)
SanitizeSteps(m) ==
    << [kind |-> "arrow", new |-> "->"],
       [kind |-> "comma", new |-> "\n"],
       [kind |-> "lstrip"],
       [kind |-> "rstrip"],
       [kind |-> "twopart", firsts |-> {"goal", "gol"}, second |-> "set", new |-> "goal_set"] >>
    \o (IF m = "generator"
        THEN << [kind |-> "twopart", firsts |-> {"existing"}, second |-> "plan",
                 new |-> "existing_plan"],
                [kind |-> "twopart", firsts |-> {"session"}, second |-> "timestamp",
                 new |-> "session_timestamp"],
                [kind |-> "word", word |-> "barriers", new |-> "barrier"] >>
        ELSE << [kind |-> "recording", new |-> "fact"] >>)
    \o WordSteps(GoalKeyOrder(m), 1)
    \o WordSteps(DomainWords(m), 1)

_sanitize_updates_text(m, body) ==
    RewriteAll(SanitizeSteps(m), 1, _to_ascii(m, body))

\* UPDATES_RE_ALL.finditer: the stripped bodies of the <STATE>...</STATE>
\* blocks, each block ending at the first closing tag after its opening tag
RECURSIVE Bodies(_, _)
Bodies(s, i) ==
    LET a == FindNoCase(s, i, "<STATE>")
        b == IF a = 0 THEN 0 ELSE FindNoCase(s, a + 7, "</STATE>")
    IN  IF b = 0 THEN <<>>
        ELSE <<strip(SubSeq(s, a + 7, b - 1))>> \o Bodies(s, b + 8)

\* of the text with its tags normalised: matches[-1] if there are blocks,
\* else the whole stripped text or None
BodyOfNormalized(s) ==
    LET matches == Bodies(s, 1)
    IN  IF matches # <<>> THEN PyStr(matches[Len(matches)])
        ELSE IF strip(s) # "" THEN PyStr(strip(s)) ELSE PyNone

\* str(v) of a value; the repr of a str is written without escapes
RECURSIVE PyStrOf(_, _)
RECURSIVE ReprItems(_, _, _)
RECURSIVE ReprList(_, _, _)
PyRepr(heap, v) ==
    IF v.k = "str" THEN "'" \o v.s \o "'" ELSE PyStrOf(heap, v)
ReprItems(heap, o, i) ==
    IF i > Len(o.order) THEN ""
    ELSE (IF i > 1 THEN ", " ELSE "") \o "'" \o o.order[i] \o "': "
         \o PyRepr(heap, o.map[o.order[i]]) \o ReprItems(heap, o, i + 1)
ReprList(heap, items, i) ==
    IF i > Len(items) THEN ""
    ELSE (IF i > 1 THEN ", " ELSE "") \o PyRepr(heap, items[i])
         \o ReprList(heap, items, i + 1)
PyStrOf(heap, v) ==
    CASE v.k = "str"  -> v.s
      [] v.k = "none" -> "None"
      [] v.k = "int"  -> IF v.n < 10 THEN Ch(DigitChars, v.n + 1)
                         ELSE PyStrOf(heap, PyInt(v.n \div 10)) \o Ch(DigitChars, (v.n % 10) + 1)
      [] v.k = "list" -> "[" \o ReprList(heap, v.items, 1) \o "]"
      [] v.k = "ref"  -> "{" \o ReprItems(heap, heap[v.a], 1) \o "}"

\* delta_output is None, a string, or a list or mapping that is turned into
\* its str(); the result is None or a string
_extract_updates_body(delta_output) ==
    IF delta_output.k = "none" THEN PyNone
    ELSE IF delta_output.k = "str"
         THEN BodyOfNormalized(_normalize_state_tags(delta_output.s))
         ELSE LET l == Load(delta_output)
              IN  BodyOfNormalized(_normalize_state_tags(PyStrOf(l.heap, l.val)))

----------------------------------------------------------------------------
(* Delta Line Parser and Schema Validator.  A delta is [path, value]: a    *)
(* sequence of path segments and the raw value string.                     *)

Delta(path, value) == [path |-> path, value |-> value]

RECURSIVE StripAll(_)
StripAll(parts) ==
    IF parts = <<>> THEN <<>> ELSE <<strip(Head(parts))>> \o StripAll(Tail(parts))

NotEmpty(x) == x # ""

\* one line of the block: no delta, or one
ParseLine(line) ==
    LET c == Find(line, 1, ":")
        path_str == SubSeq(line, 1, c - 1)
        val_str == SubSeq(line, c + 1, Len(line))
        path_tokens == SelectSeq(StripAll(split(path_str, "->")), NotEmpty)
        v == rstrip_chars(strip(val_str), {","})
        wrapped == Len(v) >= 2 /\ {Ch(v, 1), Ch(v, Len(v))} \subseteq {"\"", "'"}
        q == IF wrapped THEN v ELSE "\"" \o strip(v) \o "\""
    IN  IF upper(line) = "NONE" THEN <<>>
        ELSE IF c = 0 THEN <<>>
        ELSE IF path_tokens = <<>> THEN <<>>
        ELSE <<Delta(path_tokens, SubSeq(q, 2, Len(q) - 1))>>

RECURSIVE ParseLines(_, _)
ParseLines(lines, i) ==
    IF i > Len(lines) THEN <<>> ELSE ParseLine(lines[i]) \o ParseLines(lines, i + 1)

Accepts(m, path) ==
    /\ path # <<>>
    /\ \/ /\ path[1] = "session"
          /\ Len(path) = 2
          /\ path[2] \in ALLOWED_LEAVES(m, "session")
       \/ /\ path[1] \in ALLOWED_DOMAINS(m)
          /\ \/ Len(path) = 2 /\ path[2] \in ALLOWED_LEAVES(m, path[1])
             \/ Len(path) = 3 /\ path[2] = "goal_set" /\ path[3] \in ALLOWED_GOAL_KEYS(m)

\* a validator that keeps every parsed update
_validate_and_filter_deltas_KeepAll(m, raw_updates) == raw_updates

_validate_and_filter_deltas(m, raw_updates) ==
    LET keep(d) == Accepts(m, d.path)
    IN  SelectSeq(raw_updates, keep)

\* parse_and_clean_deltas from the sanitized body on
ParseSanitized(m, body) ==
    IF body = "" \/ upper(body) = "NONE" THEN <<>>
    ELSE _validate_and_filter_deltas(
             m, ParseLines(SelectSeq(StripAll(splitlines(body)), NotEmpty), 1))

\* parse_and_clean_deltas from the extracted body on: nothing if there is none
ParseBody(m, b) ==
    IF b.k = "none" THEN <<>> ELSE ParseSanitized(m, _sanitize_updates_text(m, b.s))

parse_and_clean_deltas(m, delta_output) ==
    ParseBody(m, _extract_updates_body(delta_output))

----------------------------------------------------------------------------
(* The extractor outputs of the model, and their parse.  The parse of a    *)
(* text depends on the text and the module only, so it is computed once    *)
(* per text.                                                               *)

Variants == {"generator", "prompt_helper"}

\* extractor outputs: nothing, the sentinel, tagged and untagged blocks of
\* valid lines, lines the sanitizer has to repair, and lines whose path is
\* outside the schema
NoUpdateTexts ==
    { PyNone, PyStr(""), PyStr(" \n"), PyStr("NONE"), PyStr("<STATE>\nnone\n</STATE>") }

UnknownPathTexts ==
    { PyStr("mood->barrier: \"x\""),
      PyStr("session->unknown_field: \"x\""),
      PyStr("<STATE>\nactivity->mood: \"x\"\n</STATE>"),
      PyStr("activity: \"x\""),
      PyStr("sleep->goal_set->Reward->more: \"x\""),
      PyStr("nutrition->goal_set->Speed: \"x\"") }

GeneratorUpdateTexts ==
    { PyStr("<STATE>\nactivity->goal_set->Specific: \"Walk\"\nactivity->goal_set->Measurable: \"15 min\"\n</STATE>"),
      PyStr("nutrition->barrier: \"too tired\", nutrition->goal_set->Specific: \"meal prep\""),
      PyStr("Session -> Agenda: 'sleep'\nsleep->goal set->reward: tea,"),
      PyStr("activity->goal_set: \"x\"") }

\* malformed extractor outputs: an opening tag that is never closed before a
\* line without a colon, lines whose path is empty, and a valid line between
\* a line without a colon and a closing tag that was never opened
MalformedTexts ==
    { PyStr("<STATE>\nsleep->barrier \"x\""),
      PyStr(": \"x\"\n->: \"y\""),
      PyStr("activity->barrier \"x\"\nsleep->barrier: \"z\"\n</STATE>") }

DeltaTexts(m) ==
    NoUpdateTexts \cup UnknownPathTexts
        \cup (IF m = "generator" THEN GeneratorUpdateTexts
              ELSE { PyStr("<STATE>\nactivity->barrier: \"Too Tired To Cook\"\n</STATE>"),
                     PyStr("sleep->goal_set->Measure: \"a, b\", sleep->barrier: \"b\""),
                     PyStr("tracking->fact: \"app\"") })

\* the lines of lines joined by sep
RECURSIVE JoinLines(_, _)
JoinLines(lines, sep) ==
    IF lines = <<>> THEN ""
    ELSE IF Len(lines) = 1 THEN lines[1]
    ELSE lines[1] \o sep \o JoinLines(Tail(lines), sep)

\* lines with line put in after the first i of them
InsertLine(lines, i, line) ==
    SubSeq(lines, 1, i) \o <<line>> \o SubSeq(lines, i + 1, Len(lines))

\* lists of valid update lines
UpdateLines(m) ==
    IF m = "generator"
    THEN { <<"nutrition->barrier: \"too tired\"", "nutrition->goal_set->Specific: \"meal prep\"">>,
           <<"activity->progress: walked", "sleep->barrier: 'noise'", "session->agenda: a, b">> }
    ELSE { <<"sleep->goal_set->Measure: \"a, b\"", "sleep->barrier: \"b\"">>,
           <<"tracking->fact: app", "activity->barrier: 'x'", "session->agenda: a, b">> }

CommaSeparators == {", ", ","}

Sentinels == {"NONE", "none", "None"}

\* the update lines one per line, and on one line joined by commas
LineTexts(m) == {PyStr(JoinLines(ls, "\n")) : ls \in UpdateLines(m)}

CommaJoinedTexts(m) ==
    {PyStr(JoinLines(ls, sep)) : ls \in UpdateLines(m), sep \in CommaSeparators}

\* the outputs of a caller that hands over whatever the extractor wrote;
\* among them tagged blocks of valid lines with distinct paths, and outputs
\* that are not text: a list or a mapping
RawTexts(m) ==
    DeltaTexts(m) \cup MalformedTexts \cup LineTexts(m) \cup CommaJoinedTexts(m)
    \cup
    { PyStr("<STATE>\nactivity->goal_set->Specific: \"Walk 15 minutes after lunch\"\nactivity->goal_set->Measurable: \"15 minutes\"\n</STATE>"),
      PyStr("<state>\nsession->agenda: 'sleep'\nsleep->barrier: noise\nsleep->goal_set->Reward: \"tea\"\n</state>") }
    \cup
    { PyList(<<>>),
      EmptyDict,
      PyList(<<PyStr("<STATE>activity->barrier: x</STATE>")>>),
      MkDict(<<"sleep->barrier">>, <<PyStr("x")>>) }

\* the extractor outputs handed to the parser.  Texts around the tags: pairs
\* in any casing, with inner whitespace and a leading underscore, several
\* pairs, tags without their partner, no tag, and nothing but whitespace.
\* The update lines with one sentinel line among them, untagged and tagged,
\* and bodies of sentinels and whitespace only.  One line with its value
\* quoted, bare, with one quote only and between quotes of two kinds; with
\* values that hold what the sanitizer looks for in paths; and written with
\* look-alikes of the arrow, the quotes and the dash, next to the same line
\* in ASCII.
ExtractorOutputs(m) ==
    RawTexts(m)
    \cup
    { PyStr("sleep->barrier: " \o v) :
        v \in { "\"x y\"", "'x y'", "x y", " x y ,,", "\"x y'", "'x y\"", "\"x y", "x y\"",
                "\"", "\"\"", "\"a: b\"",
                "\"a, b\"", "\"goal set\"", "\"x -> y\"", "\"Sleep\"", "\" x \"",
                "\"walk, sleep->barrier: z\"", "\"walk 15 min\"" } }
    \cup
    { PyStr("sleep→barrier: «x»"), PyStr("sleep->barrier: \"x\""),
      PyStr("sleep➔goal_set➔Reward: «tea»"), PyStr("sleep->goal_set->Reward: \"tea\""),
      PyStr("sleep¯>barrier: ´a¬b´"), PyStr("sleep->barrier: 'a-b'"),
      PyStr("sleep->barrier: a¯b"), PyStr("sleep->barrier: a-b") }
    \cup
    { PyStr("<state> a </state>"),
      PyStr("< _State >a: 1< / _STATE >"),
      PyStr("<STATE>a</STATE> x <state>\nb\n</state> y"),
      PyStr("<STATE>a</STATE><STATE>b"),
      PyStr("<STATE></STATE>"),
      PyStr(" a: 1 \n"),
      PyStr("< state >x"),
      PyStr("x< /state >"),
      PyStr("\n \n") }
    \cup
    (UNION {{PyStr(JoinLines(InsertLine(ls, i, n), "\n")) : i \in 0..Len(ls), n \in Sentinels} :
              ls \in UpdateLines(m)})
    \cup {PyStr("<STATE>\n" \o JoinLines(InsertLine(ls, 1, "NONE"), "\n") \o "\n</STATE>") :
             ls \in UpdateLines(m)}
    \cup {PyStr(" NONE \n"), PyStr("none\n \nNone")}

ParsedDeltas ==
    [m \in Variants |-> [t \in ExtractorOutputs(m) |-> parse_and_clean_deltas(m, t)]]

----------------------------------------------------------------------------
(* Append-with-deduplication (the merge policy of prompt_helper.py) *)

_is_none_like(heap, v) ==
    IF v.k = "none" THEN TRUE
    ELSE LET s == strip(PyStrOf(heap, v))
         IN  s = "" \/ lower(s) \in {"none", "null", "n/a"}

SeparatorChars == {";", "|", ",", "/"}

\* re.split(r"[;|,/]\s*", s)
RECURSIVE SplitSeparators(_)
SplitSeparators(s) ==
    LET n == Run(s, 1, CharsOf(s) \ SeparatorChars)
    IN  IF n = Len(s) THEN <<s>>
        ELSE <<SubSeq(s, 1, n)>>
             \o SplitSeparators(SubSeq(s, n + 2 + Run(s, n + 2, SpaceChars), Len(s)))

RECURSIVE LowerAll(_)
LowerAll(parts) ==
    IF parts = <<>> THEN <<>> ELSE <<lower(Head(parts))>> \o LowerAll(Tail(parts))

\* ex with new appended, unless new is one of its segments already; q holds
\* the segments of ex the duplicate check compares with, in lower case
Joined(ex, new, sep) ==
    IF LET q == LowerAll(SelectSeq(StripAll(SplitSeparators(ex)), NotEmpty))
       IN  lower(new) \in {q[i] : i \in 1..Len(q)}
    THEN ex
    ELSE IF ex # "" /\ Ch(ex, Len(ex)) \in SeparatorChars THEN ex \o " " \o new
    ELSE ex \o sep \o new

\* result[:max_len].rstrip() when result is longer than max_len
Capped(result, max_len) ==
    IF Len(result) > max_len THEN rstrip_chars(SubSeq(result, 1, max_len), SpaceChars)
    ELSE result

\* _append_text after new = (new or "").strip()
AppendStripped(heap, existing, new, sep, max_len) ==
    IF new = "" THEN (IF Truthy(heap, existing) THEN existing ELSE PyStr(""))
    ELSE PyStr(Capped(IF _is_none_like(heap, existing) THEN new
                      ELSE Joined(strip(PyStrOf(heap, existing)), new, sep),
                      max_len))

\* the result is a Python value: existing itself can come back unchanged
_append_text(heap, existing, new0, sep, max_len) ==
    AppendStripped(heap, existing, strip(new0), sep, max_len)

----------------------------------------------------------------------------
(* State Merge Engine *)

\* max_len of the append policy
MaxLenBarrier == 1000
MaxLenGoal == 500

\* for key in path[:-1]: descend, replacing whatever is not a dict by {}
RECURSIVE Descend(_, _, _, _)
Descend(e, node, path, i) ==
    IF i > Len(path) - 1 THEN Exec(e.heap, e.err, node)
    ELSE LET key == path[i]
             o == e.heap[node.a]
         IN  IF ObjHas(o, key) /\ o.map[key].k = "ref"
             THEN Descend(e, o.map[key], path, i + 1)
             ELSE LET a == Alloc(e, NewObj)
                  IN  Descend(setitem(a, node, key, a.val), a.val, path, i + 1)

\* the assignment to the leaf, once the loop over path[:-1] has ended at
\* the node e1 carries
ApplyLeaf(m, e1, d) ==
    LET path == d.path
        node == e1.val
        leaf == path[Len(path)]
        isGoal == Len(path) = 3 /\ path[2] = "goal_set" /\ leaf \in ALLOWED_GOAL_KEYS(m)
    IN  IF m = "generator"
        THEN IF path[1] = "session" /\ leaf \in {"agenda", "session_timestamp"}
             THEN setitem(e1, node, leaf, PyStr(d.value))
             ELSE IF /\ path[1] \in ALLOWED_DOMAINS(m)
                     /\ (leaf \in {"existing_plan", "progress", "barrier"} \/ isGoal)
             THEN setitem(e1, node, leaf, PyStr(d.value))
             ELSE e1
        ELSE IF path[1] = "session" /\ leaf = "agenda"
             THEN setitem(e1, node, leaf, PyStr(d.value))
             ELSE IF path[1] \in ALLOWED_DOMAINS(m) /\ leaf \in {"recording", "barrier"}
             THEN setitem(e1, node, leaf,
                          _append_text(e1.heap, dict_get(e1, node, leaf), d.value,
                                       "; ", MaxLenBarrier))
             ELSE IF path[1] \in ALLOWED_DOMAINS(m) /\ isGoal
             THEN setitem(e1, node, leaf,
                          _append_text(e1.heap, dict_get(e1, node, leaf), d.value,
                                       "; ", MaxLenGoal))
             ELSE e1

\* the body of the loop of apply_deltas, for one delta
ApplyOne(m, e, st, d) ==
    IF d.path = <<>> THEN e ELSE ApplyLeaf(m, Descend(e, st, d.path, 1), d)

\* a loop that stops after the first delta
ApplyAll_FirstOnly(m, e, st, deltas, i) ==
    IF e.err # NoErr \/ i > Len(deltas) THEN e ELSE ApplyOne(m, e, st, deltas[i])

\* a loop that takes the deltas from the last to the first
RECURSIVE ApplyAll_Reversed(_, _, _, _, _)
ApplyAll_Reversed(m, e, st, deltas, i) ==
    IF e.err # NoErr \/ i > Len(deltas) THEN e
    ELSE ApplyAll_Reversed(m, ApplyOne(m, e, st, deltas[Len(deltas) - i + 1]),
                           st, deltas, i + 1)

RECURSIVE ApplyAll(_, _, _, _, _)
ApplyAll(m, e, st, deltas, i) ==
    IF e.err # NoErr \/ i > Len(deltas) THEN e
    ELSE ApplyAll(m, ApplyOne(m, e, st, deltas[i]), st, deltas, i + 1)

\* apply_deltas after st = ensure_fixed_state_shape(state), whose outcome
\* is e0
ApplyToShaped(m, e0, deltas) ==
    IF e0.err # NoErr THEN e0
    ELSE Exec(ApplyAll(m, e0, e0.val, deltas, 1).heap, NoErr, e0.val)

\* apply_deltas with an early return of the caller's tree when there is
\* nothing to apply
apply_deltas_EarlyReturn(m, ord, e, state, deltas) ==
    IF e.err # NoErr THEN e
    ELSE IF deltas = <<>> THEN Exec(e.heap, NoErr, state)
    ELSE ApplyToShaped(m, ensure_fixed_state_shape(m, ord, e, state), deltas)

apply_deltas(m, ord, e, state, deltas) ==
    IF e.err # NoErr THEN e
    ELSE ApplyToShaped(m, ensure_fixed_state_shape(m, ord, e, state), deltas)

\* apply_deltas(state, parse_and_clean_deltas(delta_text)), delta_text one of
\* the extractor outputs of the model
apply_delta_text(m, ord, e, state, delta_text) ==
    apply_deltas(m, ord, e, state, ParsedDeltas[m][delta_text])

\* a string as json.dumps(..., ensure_ascii=False) writes it
JsonString(s) ==
    "\"" \o replace(replace(replace(replace(replace(replace(s, "\\", "\\\\"),
                                                      "\"", "\\\""),
                                              "\n", "\\n"),
                                      "\r", "\\r"),
                              "\t", "\\t"),
                      "\f", "\\f") \o "\""

\* json.dumps(v, ensure_ascii=False, indent=2) of a deep value, at nesting
\* level lvl: the keys of a dict in its insertion order
RECURSIVE JsonDumps(_, _)
JsonDumps(v, lvl) ==
    CASE v.k = "none" -> "null"
      [] v.k = "str"  -> JsonString(v.s)
      [] v.k = "int"  -> PyStrOf(<<>>, v)
      [] v.k = "list" ->
           IF v.items = <<>> THEN "[]"
           ELSE "[\n"
                \o JoinLines([i \in 1..Len(v.items) |->
                                 Repeat(" ", 2 * lvl + 2) \o JsonDumps(v.items[i], lvl + 1)],
                             ",\n")
                \o "\n" \o Repeat(" ", 2 * lvl) \o "]"
      [] v.k = "dict" ->
           IF v.order = <<>> THEN "{}"
           ELSE "{\n"
                \o JoinLines([i \in 1..Len(v.order) |->
                                 Repeat(" ", 2 * lvl + 2) \o JsonString(v.order[i]) \o ": "
                                     \o JsonDumps(v.map[v.order[i]], lvl + 1)],
                             ",\n")
                \o "\n" \o Repeat(" ", 2 * lvl) \o "}"

\* json.dumps(ensure_fixed_state_shape(state), ensure_ascii=False, indent=2)
state_to_text(m, ord, e, state) ==
    LET r == ensure_fixed_state_shape(m, ord, e, state)
    IN  IF r.err # NoErr THEN r
        ELSE Exec(r.heap, NoErr, PyStr(JsonDumps(Deep(r.heap, r.val), 0)))

----------------------------------------------------------------------------
(* A call from outside: the caller's tree is loaded into a fresh heap, the  *)
(* function runs, and the outcome is read back: err, the returned tree     *)
(* (val) and the caller's own tree object after the call (post).           *)

Outcome(r, callerTree) ==
    [err |-> r.err,
     val |-> IF r.err = NoErr THEN Deep(r.heap, r.val) ELSE PyNone,
     post |-> Deep(r.heap, callerTree)]

Call_ensure_fixed_state_shape(m, ord, tree) ==
    LET l == Load(tree)
    IN  Outcome(ensure_fixed_state_shape(m, ord, l, l.val), l.val)

Call_apply_deltas(m, ord, tree, deltas) ==
    LET l == Load(tree)
    IN  Outcome(apply_deltas(m, ord, l, l.val, deltas), l.val)

Call_apply_delta_text(m, ord, tree, delta_text) ==
    LET l == Load(tree)
    IN  Outcome(apply_delta_text(m, ord, l, l.val, delta_text), l.val)

Call_state_to_text(m, ord, tree) ==
    LET l == Load(tree)
    IN  Outcome(state_to_text(m, ord, l, l.val), l.val)

----------------------------------------------------------------------------
(* The inputs of the model *)

D1(k1, v1) == MkDict(<<k1>>, <<v1>>)
D2(k1, v1, k2, v2) == MkDict(<<k1, k2>>, <<v1, v2>>)

\* trees a caller can hold before the first call: none, empty, partly
\* shaped, with keys outside the schema, with null leaves, and with values
\* of the wrong type at a schema key
InitTrees(m) ==
    IF m = "generator"
    THEN
    { PyNone,
      EmptyDict,
      D2("session", D1("agenda", PyStr("A")),
         "activity", D2("barrier", PyStr("b"), "goal_set", D1("Specific", PyStr("s")))),
      D2("junk", PyStr("j"),
         "activity", D2("mood", PyStr("m"), "goal_set", D1("Extra", PyStr("e")))),
      D2("session", D1("agenda", PyNone),
         "sleep", D2("progress", PyNone, "goal_set", D1("Reward", PyNone))),
      D1("session", PyStr("s")),
      D1("session", PyNone),
      D1("session", PyList(<<>>)),
      D1("activity", PyStr("s")),
      D1("activity", PyNone),
      D1("activity", PyList(<<PyStr("ab")>>)),
      D1("sleep", D1("goal_set", PyStr("s"))),
      D2("nutrition", D1("goal_set", PyNone), "activity", D1("goal_set", EmptyDict)) }
    ELSE
    { PyNone,
      EmptyDict,
      D2("session", D1("agenda", PyStr("A")),
         "activity", D1("barrier", PyStr("too tired to cook"))),
      D1("sleep", D2("barrier", PyStr("a;"), "goal_set", D1("Measure", PyStr("a, b")))),
      D1("sleep", D2("barrier", PyNone, "goal_set", D1("Measure", PyStr(" n/a ")))),
      D1("sleep", D1("barrier", PyStr("b; a "))),
      D1("sleep", D2("barrier", PyStr(Repeat("x", MaxLenBarrier - 2)),
                     "goal_set", D1("Measure", PyStr(Repeat("y ", MaxLenGoal \div 2 + 1))))),
      D1("nutrition", D1("goal_set", PyStr("s"))) }

\* delta lists handed to apply_deltas directly
DeltaLists(m) ==
    IF m = "generator"
    THEN
    { <<>>,
      <<Delta(<<"sleep", "progress">>, "7h"), Delta(<<"sleep", "progress">>, "8h")>>,
      <<Delta(<<"session", "agenda">>, "B"), Delta(<<"sleep", "goal_set", "Reward">>, "gum"),
        Delta(<<"session", "agenda">>, "C")>>,
      <<Delta(<<"activity", "goal_set">>, "x")>>,
      <<Delta(<<"mood", "barrier">>, "x")>>,
      <<Delta(<<"activity", "barrier", "x">>, "v")>> }
    ELSE
    {<<>>} \cup {<<Delta(p, v)>> : p \in {<<"sleep", "barrier">>, <<"sleep", "goal_set", "Measure">>},
                                   v \in {"a", "A", "b", "a, b", "x/y", "none", ""}}

\* paths handed to the validator: each shape the rule names, and its
\* neighbours
RawUpdates ==
    LET RawPaths ==
    { <<"session", "agenda">>, <<"session", "session_timestamp">>, <<"session", "mood">>,
      <<"session">>, <<"activity", "barrier">>, <<"sleep", "existing_plan">>,
      <<"nutrition", "progress">>, <<"activity", "goal_set">>, <<"activity", "fact">>,
      <<"sleep", "goal_set", "Reward">>, <<"sleep", "goal_set", "Measure">>,
      <<"sleep", "barrier", "Reward">>, <<"mood", "barrier">>,
      <<"tracking", "barrier">>, <<"sleep", "goal_set", "Reward", "x">> }
    IN  UNION {[1..n -> {Delta(p, "v") : p \in RawPaths}] : n \in 0..MaxRaw}

----------------------------------------------------------------------------
(* The state machine: a caller holding a tree calls the engine.  After a   *)
(* call that returned, the caller holds the returned tree; after a call    *)
(* that raised, it still holds the tree it passed in.                      *)

NoOutcome == [err |-> NoErr, val |-> PyNone]

\* a user directory without files, on day 1, and an idle chat tab.  The
\* files: chats_index.json (conversations), the conversation files (chats),
\* the coach state tracker files (csts) and the session reports (reports),
\* each file under the (date, index) of its session.  chat_meta_state is as
\* app.py creates it, with 0 for None
NoApp ==
    [today |-> 1, conversations |-> <<>>, chats |-> <<>>, csts |-> <<>>, reports |-> {},
     chat_meta_state |-> [date |-> 0, index |-> 0, finished |-> TRUE, active |-> FALSE],
     chat_history_state |-> <<>>]

InitFor(m) ==
    /\ variant = m
    /\ domOrder \in DomainOrders(m)
    /\ cur \in InitTrees(m)
    /\ op = "init"
    /\ arg = PyNone
    /\ pre = PyNone
    /\ post = PyNone
    /\ out = NoOutcome
    /\ calls = 0
    /\ app = NoApp

Called(name, a, r) ==
    /\ op' = name
    /\ arg' = a
    /\ pre' = cur
    /\ post' = r.post
    /\ out' = [err |-> r.err, val |-> r.val]
    /\ cur' = IF r.err = NoErr THEN r.val ELSE r.post
    /\ calls' = calls + 1
    /\ UNCHANGED <<variant, domOrder, app>>

CallBound == IF variant = "generator" THEN MaxCalls ELSE MaxHelperCalls

EnsureShape ==
    /\ calls < CallBound
    /\ Called("ensure_fixed_state_shape", PyNone,
              Call_ensure_fixed_state_shape(variant, domOrder, cur))

ApplyDeltas ==
    /\ calls < CallBound
    /\ \E deltas \in DeltaLists(variant) :
          Called("apply_deltas", PyDeltas(deltas), Call_apply_deltas(variant, domOrder, cur, deltas))

ApplyDeltaText ==
    /\ calls < CallBound
    /\ \E t \in DeltaTexts(variant) :
          Called("apply_delta_text", t, Call_apply_delta_text(variant, domOrder, cur, t))

Next == EnsureShape \/ ApplyDeltas \/ ApplyDeltaText

Spec == InitFor("generator") /\ [][Next]_vars

SpecHelper == InitFor("prompt_helper") /\ [][Next]_vars

\* a caller of either module whose state is not a mapping
\* state arguments that are not a mapping: scalars, falsy and not, and lists
InitNonMapping ==
    /\ variant \in Variants
    /\ domOrder \in DomainOrders(variant)
    /\ cur \in { PyInt(0), PyInt(5), PyStr(""), PyStr("s"), PyList(<<>>),
                 PyList(<<PyStr("ab")>>) }
    /\ op = "init"
    /\ arg = PyNone
    /\ pre = PyNone
    /\ post = PyNone
    /\ out = NoOutcome
    /\ calls = 0
    /\ app = NoApp

SpecNonMapping == InitNonMapping /\ [][Next]_vars

----------------------------------------------------------------------------
(* A caller that passes every extractor output on to apply_delta_text,     *)
(* malformed ones included, starting from no tree, an empty one, partly    *)
(* filled ones or one the normalizer rejects.                              *)

InitText ==
    /\ variant \in Variants
    /\ domOrder = DomainWords(variant)
    /\ cur \in { PyNone,
                 EmptyDict,
                 D2("session", D1("agenda", PyStr("A")), "sleep", D1("barrier", PyStr("b"))),
                 D2("junk", PyStr("j"),
                    "activity", D2("progress", PyStr("p"),
                                   "goal_set", D1("Specific", PyStr("s")))),
                 D1("session", PyNone) }
    /\ op = "init"
    /\ arg = PyNone
    /\ pre = PyNone
    /\ post = PyNone
    /\ out = NoOutcome
    /\ calls = 0
    /\ app = NoApp

ApplyText ==
    /\ calls < MaxTextCalls
    /\ \E t \in RawTexts(variant) :
          Called("apply_delta_text", t, Call_apply_delta_text(variant, domOrder, cur, t))

SpecText == InitText /\ [][ApplyText]_vars

----------------------------------------------------------------------------
(* The pure stages of the parser.  A run draws one input, a raw update     *)
(* list for the validator, an extractor output for the tag normalizer and  *)
(* the parser or a block body for the sanitizer, and a stage is applied to *)
(* it.                                                                     *)

\* a run of the parser stages draws one input.  The block bodies handed to
\* the sanitizer are the bodies of the extractor outputs, and bodies in
\* which one rewrite prepares a match for an earlier one
InitParse ==
    /\ variant \in Variants
    /\ domOrder = <<>>
    /\ cur = PyNone
    /\ \/ op = "raw_updates" /\ arg \in {PyDeltas(r) : r \in RawUpdates}
       \/ op = "delta_output" /\ arg \in ExtractorOutputs(variant)
       \/ op = "body"
          /\ arg \in {u \in DeltaTexts(variant) \cup LineTexts(variant)
                              \cup CommaJoinedTexts(variant) : u.k = "str"}
                     \cup { PyStr("sleep->barrier: x, goal set->Reward: y"),
                            PyStr("Sleep -> Goal Set -> reward: \"tea\","),
                            PyStr("a" \o ZWSP \o "b"),
                            PyStr("ƒ" \o ZWSP \o "?o") }
    /\ pre = PyNone
    /\ post = PyNone
    /\ out = NoOutcome
    /\ calls = 0
    /\ app = NoApp

Validate ==
    /\ op = "raw_updates"
    /\ op' = "_validate_and_filter_deltas"
    /\ out' = [err |-> NoErr,
               val |-> PyDeltas(_validate_and_filter_deltas(variant, arg.items))]
    /\ calls' = calls + 1
    /\ UNCHANGED <<variant, domOrder, cur, arg, pre, post, app>>

ExtractBody ==
    /\ op = "delta_output"
    /\ op' = "_extract_updates_body"
    /\ out' = [err |-> NoErr, val |-> _extract_updates_body(arg)]
    /\ calls' = calls + 1
    /\ UNCHANGED <<variant, domOrder, cur, arg, pre, post, app>>

Sanitize ==
    /\ op = "body"
    /\ op' = "_sanitize_updates_text"
    /\ out' = [err |-> NoErr, val |-> PyStr(_sanitize_updates_text(variant, arg.s))]
    /\ calls' = calls + 1
    /\ UNCHANGED <<variant, domOrder, cur, arg, pre, post, app>>

ParseAndClean ==
    /\ op = "delta_output"
    /\ op' = "parse_and_clean_deltas"
    /\ out' = [err |-> NoErr, val |-> PyDeltas(ParsedDeltas[variant][arg])]
    /\ calls' = calls + 1
    /\ UNCHANGED <<variant, domOrder, cur, arg, pre, post, app>>

SpecParse == InitParse /\ [][Validate \/ ExtractBody \/ Sanitize \/ ParseAndClean]_vars

\* a caller that serializes the tree it holds for the next prompt.  The trees
\* come in pairs of equal contents whose keys were inserted in different
\* orders, with values json.dumps has to escape, and with keys outside the
\* schema
InitSerialize ==
    /\ variant \in Variants
    /\ domOrder \in DomainOrders(variant)
    /\ cur \in { PyNone,
                 EmptyDict,
                 D2("activity", D1("barrier", PyStr("a")), "sleep", D1("barrier", PyStr("b"))),
                 D2("sleep", D1("barrier", PyStr("b")), "activity", D1("barrier", PyStr("a"))),
                 D2("session", D1("agenda", PyStr("say \"no\"\n")),
                    "sleep", D1("goal_set", D2("Reward", PyStr("tea"), "Specific", PyStr("a\\b")))),
                 D2("sleep", D1("goal_set", D2("Specific", PyStr("a\\b"), "Reward", PyStr("tea"))),
                    "session", D1("agenda", PyStr("say \"no\"\n"))),
                 D2("junk", PyList(<<PyStr("ab"), PyNone, PyInt(7)>>), "week", PyInt(3)),
                 D1("activity", PyStr("s")) }
    /\ op = "init"
    /\ arg = PyNone
    /\ pre = PyNone
    /\ post = PyNone
    /\ out = NoOutcome
    /\ calls = 0
    /\ app = NoApp

\* state_to_text(cur): the caller gets the text and goes on holding the tree
\* object it passed in
StateToText ==
    /\ calls < CallBound
    /\ LET r == Call_state_to_text(variant, domOrder, cur)
       IN  /\ op' = "state_to_text"
           /\ arg' = PyNone
           /\ pre' = cur
           /\ post' = r.post
           /\ out' = [err |-> r.err, val |-> r.val]
           /\ cur' = r.post
           /\ calls' = calls + 1
    /\ UNCHANGED <<variant, domOrder, app>>

SpecSerialize == InitSerialize /\ [][StateToText]_vars

----------------------------------------------------------------------------
(* The chat sessions of logic/logic_chat.py, for a logged-in user in the   *)
(* default mode (SYSTEM_MODE 0).  A session is named by its date and its   *)
(* index within the date; a date is a day number, and the order of the day *)
(* numbers is the order of the ISO date strings of today_str().  Of a      *)
(* conversation the model keeps the user's messages.  The prompts, the     *)
(* replies, goals.json and the progress file are not part of the state: no *)
(* step that reads or writes the coach state tracker (CST) depends on them.*)

\* the order of _parse_session_key and of (c["date"], c["index"])
KeyLeq(j, k) == j[1] < k[1] \/ (j[1] = k[1] /\ j[2] <= k[2])

\* load_latest_cst: the files sorted by session key, the last one loaded
load_latest_cst(csts) ==
    IF DOMAIN csts = {} THEN EmptyDict
    ELSE csts[CHOOSE k \in DOMAIN csts : \A j \in DOMAIN csts : KeyLeq(j, k)]

\* apply_delta_text(..., session_num=n) and build_initial_cst(..., session_num=n):
\* the functions of agents/generator.py have no parameter session_num, so
\* the call raises before the body runs
SessionNumCall == "TypeError"

\* start_new_chat_action, from load_latest_cst to the call before save_cst:
\* the exception of the first statement that raises
SeedFromLatest(ord, csts) ==
    LET latest == load_latest_cst(csts)
        shaped == Call_ensure_fixed_state_shape("generator", ord, latest)
    IN  IF latest # EmptyDict /\ shaped.err # NoErr THEN shaped.err ELSE SessionNumCall

\* save_conversation: nothing is written without a date and an index
save_conversation(chats, meta, history) ==
    IF meta.date = 0 \/ meta.index = 0 THEN chats
    ELSE (<<meta.date, meta.index>> :> [finished |-> meta.finished, messages |-> history]) @@ chats

\* start_new_chat_action: the index and the empty conversation are saved,
\* then the seeding of the CST raises; save_cst and the return that would
\* hand the new chat_meta_state to the chat tab are behind that statement
start_new_chat_action(a, ord) ==
    LET todays == {i \in 1..Len(a.conversations) : a.conversations[i].date = a.today}
        new_idx == IF todays # {}
                   THEN 1 + CHOOSE n \in {a.conversations[i].index : i \in todays} :
                                \A i \in todays : a.conversations[i].index <= n
                   ELSE 1
        meta == [date |-> a.today, index |-> new_idx, finished |-> FALSE, active |-> TRUE]
    IN  [app |-> [a EXCEPT !.conversations =
                               Append(@, [date |-> a.today, index |-> new_idx, finished |-> FALSE]),
                           !.chats = save_conversation(@, meta, <<>>)],
         err |-> SeedFromLatest(ord, a.csts),
         val |-> PyNone]

\* continue_chat_action, when there is an unfinished conversation: the last
\* one in the order of (date, index) is loaded into the chat tab
continue_chat_action(a) ==
    LET unfinished == {<<c.date, c.index>> : c \in {a.conversations[i] : i \in
                           {i \in 1..Len(a.conversations) : ~a.conversations[i].finished}}}
        key == CHOOSE k \in unfinished : \A j \in unfinished : KeyLeq(j, k)
        file == IF key \in DOMAIN a.chats THEN a.chats[key]
                ELSE [finished |-> FALSE, messages |-> <<>>]
    IN  [app |-> [a EXCEPT !.chat_meta_state = [date |-> key[1], index |-> key[2],
                                                finished |-> file.finished,
                                                active |-> ~file.finished],
                           !.chat_history_state = file.messages],
         err |-> NoErr,
         val |-> PyStr("Loaded unfinished conversation")]

\* end_chat_action on an active conversation: it is marked finished in the
\* index and in its file, and its session report is saved unless the
\* extractor raises
end_chat_action(a, reported) ==
    LET meta == a.chat_meta_state
        new_meta == [meta EXCEPT !.finished = TRUE, !.active = FALSE]
    IN  [app |-> [a EXCEPT !.conversations =
                               [i \in 1..Len(@) |->
                                   IF @[i].date = meta.date /\ @[i].index = meta.index
                                   THEN [@[i] EXCEPT !.finished = TRUE] ELSE @[i]],
                           !.chats = save_conversation(@, new_meta, a.chat_history_state),
                           !.reports = IF reported THEN @ \cup {<<meta.date, meta.index>>} ELSE @,
                           !.chat_meta_state = new_meta],
         err |-> NoErr,
         val |-> PyStr("Conversation ended")]

\* chat_send_action on an active conversation with a non-empty message: the
\* CST update raises inside its try block before save_cst, the message is
\* added to the conversation and the conversation is saved. failed is the
\* exception of the first statement of the try block that raises, up to the
\* call of apply_delta_text; load_cst gives the CST file of the session, {}
\* when there is none
chat_send_action(a, ord, user_input, extractor) ==
    LET meta == a.chat_meta_state
        key == <<meta.date, meta.index>>
        own == IF key \in DOMAIN a.csts THEN a.csts[key] ELSE EmptyDict
        failed == IF meta.date # 0 /\ meta.index # 0
                  THEN IF own = EmptyDict THEN SeedFromLatest(ord, a.csts)
                       ELSE IF "session" \in DOMAIN own.map THEN SessionNumCall
                       ELSE "KeyError"
                  ELSE NoErr
        new_history == Append(a.chat_history_state, user_input)
    IN  [app |-> [a EXCEPT !.chats = save_conversation(@, meta, new_history),
                           !.chat_history_state = new_history],
         err |-> NoErr,
         val |-> PyStr(IF extractor.err # NoErr
                       THEN "Message sent, but extractor failed to update goals"
                       ELSE IF failed # NoErr THEN "Message sent, but CST update failed: " \o failed
                       ELSE "")]

InitSession ==
    /\ variant = "generator"
    /\ domOrder \in DomainOrders(variant)
    /\ cur = PyNone
    /\ op = "init"
    /\ arg = PyNone
    /\ pre = PyNone
    /\ post = PyNone
    /\ out = NoOutcome
    /\ calls = 0
    /\ app = NoApp

\* the handler ran: its outcome is recorded (for chat_send_action with the
\* extractor's output as arg) and the files and the chat tab are as it left
\* them
Handled(name, a, r) ==
    /\ op' = name
    /\ arg' = a
    /\ out' = [err |-> r.err, val |-> r.val]
    /\ app' = r.app
    /\ UNCHANGED <<variant, domOrder, cur, pre, post, calls>>

StartNewChat ==
    /\ Len(app.conversations) < MaxSessions
    /\ Handled("start_new_chat_action", PyNone, start_new_chat_action(app, domOrder))

ContinueChat ==
    /\ \E i \in 1..Len(app.conversations) : ~app.conversations[i].finished
    /\ Handled("continue_chat_action", PyNone, continue_chat_action(app))

EndChat ==
    /\ app.chat_meta_state.active
    /\ app.chat_meta_state.date # 0 /\ app.chat_meta_state.index # 0
    /\ \E reported \in BOOLEAN :
          Handled("end_chat_action", PyNone, end_chat_action(app, reported))

ChatSend ==
    /\ app.chat_meta_state.active
    /\ Len(app.chat_history_state) < MaxTurns
    /\ \E user_input \in {"I sleep badly"} :
       \E extractor \in { [err |-> NoErr, val |-> ""],
                          [err |-> NoErr, val |-> "<STATE>sleep->barrier: \"noise\"</STATE>"],
                          [err |-> "RuntimeError", val |-> ""] } :
          Handled("chat_send_action", PyStr(extractor.val),
                  chat_send_action(app, domOrder, user_input, extractor))

\* midnight: today_str() returns the next date
NextDay ==
    /\ app.today < MaxDays
    /\ app' = [app EXCEPT !.today = @ + 1]
    /\ UNCHANGED <<variant, domOrder, cur, op, arg, pre, post, out, calls>>

SpecSession ==
    InitSession /\ [][StartNewChat \/ ContinueChat \/ EndChat \/ ChatSend \/ NextDay]_vars

----------------------------------------------------------------------------
(* Properties of the engine.  Each is stated on the record of the last     *)
(* call: op, arg, the tree before it (pre), the caller's tree object after *)
(* it (post) and the outcome (out).                                        *)

Returned(name) == op = name /\ out.err = NoErr

\* v is a mapping that holds every key of keys
HasKeys(v, keys) == v.k = "dict" /\ keys \subseteq DOMAIN v.map

\* v is a mapping that holds the keys of keys and no other
HasExactly(v, keys) == v.k = "dict" /\ DOMAIN v.map = keys

DomainSet == {"activity", "nutrition", "sleep"}
DomainLeaves == {"existing_plan", "progress", "barrier"}
GoalKeySet == {"Specific", "Measurable", "Attainable", "Reward", "Timeframe"}
SessionLeaves == {"session_timestamp", "agenda"}

\* the shape of a normalized tree of generator.py
Shaped(t) ==
    /\ HasKeys(t, {"session"} \cup DomainSet)
    /\ HasKeys(t.map["session"], SessionLeaves)
    /\ \A d \in DomainSet :
         /\ HasKeys(t.map[d], DomainLeaves \cup {"goal_set"})
         /\ HasKeys(t.map[d].map["goal_set"], GoalKeySet)

\* the outcome of ensure_fixed_state_shape on the tree the last call was
\* given
NormalizedPre == Call_ensure_fixed_state_shape(variant, domOrder, pre)

\* C1: after any sequence of generator.apply_delta_text calls, from no tree
\* or from any mapping, every tree a call returns has a session mapping with
\* session_timestamp and agenda, and for each of activity, nutrition and
\* sleep a mapping with existing_plan, progress, barrier and a goal_set
\* mapping that holds the five goal keys.
C1_ReturnedTreeShaped == Returned("apply_delta_text") => Shaped(out.val)

\* a second apply_delta_text, on the tree the first call built from no tree
\* or from an empty one, has stored a goal and returned a shaped tree
C1_Witness ==
    /\ Returned("apply_delta_text")
    /\ calls = MaxCalls
    /\ arg \in GeneratorUpdateTexts
    /\ Shaped(pre)
    /\ Shaped(out.val)
    /\ out.val.map["activity"].map["goal_set"].map["Specific"] = PyStr("Walk")

\* the tree holds exactly the keys of the schema of module m
SchemaClosed(m, t) ==
    /\ HasExactly(t, {"session"} \cup ALLOWED_DOMAINS(m))
    /\ \A d \in ALLOWED_DOMAINS(m) :
         /\ HasExactly(t.map[d], ALLOWED_LEAVES(m, d))
         /\ HasExactly(t.map[d].map["goal_set"], ALLOWED_GOAL_KEYS(m))

\* C2: schema closure: for every input tree, the tree that
\* ensure_fixed_state_shape returns holds exactly session and the Domain Set
\* at the top level, exactly the fixed leaf keys in each domain, and exactly
\* the Goal Key Set in each goal_set.
C2_SchemaClosure ==
    Returned("ensure_fixed_state_shape") => SchemaClosed(variant, out.val)

\* C3: input immutability: a call to ensure_fixed_state_shape, apply_deltas
\* or apply_delta_text leaves the tree object the caller passed in, with its
\* nested mappings, holding exactly the keys and values it held before.
C3_InputUnchanged ==
    op \in {"ensure_fixed_state_shape", "apply_deltas", "apply_delta_text"} => post = pre

\* C4: unknown-path rejection: for any tree, apply_delta_text with a delta
\* line whose path names an unknown domain, an unknown session leaf, an
\* unknown domain leaf, or has a depth outside {2,3} never raises and
\* returns a tree equal to ensure_fixed_state_shape of the tree.
C4_UnknownPathRejected ==
    (op = "apply_delta_text" /\ arg \in UnknownPathTexts)
        => /\ out.err = NoErr
           /\ NormalizedPre.err = NoErr
           /\ PyEq(out.val, NormalizedPre.val)

\* the rule of the Schema Validator as the specification words it
RuleAccepts(path) ==
    \/ path \in {<<"session", "agenda">>, <<"session", "session_timestamp">>}
    \/ Len(path) = 2 /\ path[1] \in DomainSet /\ path[2] \in DomainLeaves
    \/ Len(path) = 3 /\ path[1] \in DomainSet /\ path[2] = "goal_set"
                     /\ path[3] \in GoalKeySet

RuleKeeps(d) == RuleAccepts(d.path)

\* C5: the Schema Validator of generator.py keeps a parsed (path, value) if
\* and only if its path is session.agenda, session.session_timestamp,
\* <domain>.<leaf> with leaf in {existing_plan, progress, barrier}, or
\* <domain>.goal_set.<goal_key>; every other path, the two-segment
\* <domain>.goal_set among them, is dropped; kept deltas keep their order.
C5_ValidatorRule ==
    (variant = "generator" /\ op = "_validate_and_filter_deltas")
        => out.val = PyDeltas(SelectSeq(arg.items, RuleKeeps))

\* the text of the leaf a delta of prompt_helper.py is appended to
LeafText(t, path) ==
    IF Len(path) = 2 THEN t.map[path[1]].map[path[2]]
    ELSE t.map[path[1]].map[path[2]].map[path[3]]

\* the outcome of applying the deltas of the last call once more, to the
\* tree that call returned
AppliedAgain == Call_apply_deltas(variant, domOrder, out.val, arg.items)

\* C6: dedup idempotence: in prompt_helper.apply_deltas, for every prior
\* text of an append-policy leaf (barrier, goal_set.<key>) and every delta
\* value, values holding one of the separators ; | , / included, applying
\* the same valid delta twice yields the leaf text of applying it once.
C6_AppendTwiceIsOnce ==
    (variant = "prompt_helper" /\ Returned("apply_deltas") /\ Len(arg.items) = 1)
        => /\ AppliedAgain.err = NoErr
           /\ LeafText(AppliedAgain.val, arg.items[1].path)
                = LeafText(out.val, arg.items[1].path)

\* the outcome of ensure_fixed_state_shape on the tree the last call
\* returned
NormalizedAgain == Call_ensure_fixed_state_shape(variant, domOrder, out.val)

\* C7: idempotence of normalization: for any tree that
\* ensure_fixed_state_shape accepts, normalizing the tree it returns gives
\* an equal tree.
C7_NormalizeIdempotent ==
    Returned("ensure_fixed_state_shape")
        => /\ NormalizedAgain.err = NoErr
           /\ PyEq(NormalizedAgain.val, out.val)

\* ensure_fixed_state_shape has returned for a tree it had to complete
C7_Witness ==
    /\ Returned("ensure_fixed_state_shape")
    /\ pre.k = "dict"
    /\ ~PyEq(out.val, pre)
    /\ PyEq(NormalizedAgain.val, out.val)

\* the last call had no delta to apply
NoDeltaCall ==
    \/ op = "apply_deltas" /\ arg = PyDeltas(<<>>)
    \/ op = "apply_delta_text" /\ arg \in NoUpdateTexts

\* C8: no-op on empty deltas: apply_deltas with the empty delta list, on a
\* normalized tree as on any other, and apply_delta_text with a text that
\* yields no delta (None, empty, only NONE) have the outcome of
\* ensure_fixed_state_shape: the same tree, which is the tree passed in when
\* that tree is normalized.
C8_EmptyDeltasNoOp ==
    NoDeltaCall
        => /\ out.err = NormalizedPre.err
           /\ (out.err = NoErr => PyEq(out.val, NormalizedPre.val))

\* apply_deltas with the empty list has returned, for the tree that
\* ensure_fixed_state_shape had returned to the caller, a tree equal to it
C8_Witness ==
    /\ Returned("apply_deltas")
    /\ arg = PyDeltas(<<>>)
    /\ calls = MaxCalls
    /\ Shaped(pre)
    /\ PyEq(pre, NormalizedPre.val)
    /\ PyEq(out.val, pre)

\* C9: corrupted persisted state is repaired: when the tree is a mapping,
\* whatever the type of the value it holds at session, at a domain or at a
\* goal_set, ensure_fixed_state_shape does not raise and returns a tree of
\* the normalized shape.
C9_CorruptedRepaired ==
    (variant = "generator" /\ op = "ensure_fixed_state_shape" /\ pre.k = "dict")
        => out.err = NoErr /\ Shaped(out.val)

IsStr(v) == v.k = "str"

\* every leaf of a shaped tree of generator.py is a string
LeavesAreStrings(t) ==
    /\ \A x \in SessionLeaves : IsStr(t.map["session"].map[x])
    /\ \A d \in DomainSet :
         /\ \A x \in DomainLeaves : IsStr(t.map[d].map[x])
         /\ \A g \in GoalKeySet : IsStr(t.map[d].map["goal_set"].map[g])

\* C10: string leaves are never null: for any input tree, one whose schema
\* leaves hold None included, every leaf (session.agenda,
\* session.session_timestamp, each domain's existing_plan, progress, barrier
\* and every goal_set key) of the tree that ensure_fixed_state_shape and
\* apply_deltas return is a string.
C10_LeavesNeverNull ==
    (variant = "generator" /\ (Returned("ensure_fixed_state_shape") \/ Returned("apply_deltas")))
        => Shaped(out.val) /\ LeavesAreStrings(out.val)

\* the delta list parse_and_clean_deltas returns for the text of the last
\* apply_delta_text call
ParsedArg == ParsedDeltas[variant][arg]

\* every delta of the list is one the validator of module m keeps
AllAccepted(m, deltas) == \A i \in 1..Len(deltas) : Accepts(m, deltas[i].path)

NotAMapping(t) == t.k \in {"int", "str", "list"}

\* C12: a state argument that is not a mapping at all (any scalar, the
\* falsy 0 and the empty string included, or a list) makes
\* ensure_fixed_state_shape and apply_deltas fail with an error to the
\* caller instead of returning a tree.
C12_NonMappingFails ==
    (op \in {"ensure_fixed_state_shape", "apply_deltas"} /\ NotAMapping(pre))
        => out.err # NoErr

\* the paths of the leaves of the schema of module m
SchemaLeaves(m) ==
    {<<"session", x>> : x \in ALLOWED_LEAVES(m, "session")}
        \cup UNION {{<<d, x>> : x \in ALLOWED_LEAVES(m, d) \ {"goal_set"}} :
                       d \in ALLOWED_DOMAINS(m)}
        \cup {<<d, "goal_set", g>> : d \in ALLOWED_DOMAINS(m), g \in ALLOWED_GOAL_KEYS(m)}

\* the tree holds a value at the path, under mappings all the way
RECURSIVE Present(_, _)
Present(t, path) ==
    \/ path = <<>>
    \/ t.k = "dict" /\ Head(path) \in DOMAIN t.map /\ Present(t.map[Head(path)], Tail(path))

RECURSIVE ValueAt(_, _)
ValueAt(t, path) == IF path = <<>> THEN t ELSE ValueAt(t.map[Head(path)], Tail(path))

\* the tree t holds at the path the value that the tree s holds there
SameAt(t, s, path) == Present(t, path) /\ PyEq(ValueAt(t, path), ValueAt(s, path))

\* C13: shape normalization only adds: for any tree T and every schema leaf
\* that is present in T with a value, the tree ensure_fixed_state_shape(T)
\* returns holds the same value at that leaf; no present value is removed or
\* altered.
C13_NormalizeOnlyAdds ==
    Returned("ensure_fixed_state_shape")
        => \A p \in SchemaLeaves(variant) : Present(pre, p) => SameAt(out.val, pre, p)

\* ensure_fixed_state_shape has completed a tree that held a goal and a
\* barrier, and the returned tree holds both
C13_Witness ==
    /\ Returned("ensure_fixed_state_shape")
    /\ Present(pre, <<"activity", "goal_set", "Specific">>)
    /\ ValueAt(pre, <<"activity", "goal_set", "Specific">>) = PyStr("s")
    /\ ~Present(pre, <<"activity", "goal_set", "Reward">>)
    /\ Present(out.val, <<"activity", "goal_set", "Reward">>)
    /\ ValueAt(out.val, <<"activity", "goal_set", "Specific">>) = PyStr("s")
    /\ ValueAt(out.val, <<"activity", "barrier">>) = PyStr("b")

\* <STATE> blocks of valid update lines with distinct paths, each with the
\* (path, value) pairs its lines state
ValidBlocks ==
    { [text |-> PyStr("<STATE>\nactivity->goal_set->Specific: \"Walk\"\nactivity->goal_set->Measurable: \"15 min\"\n</STATE>"),
       updates |-> <<Delta(<<"activity", "goal_set", "Specific">>, "Walk"),
                     Delta(<<"activity", "goal_set", "Measurable">>, "15 min")>>],
      [text |-> PyStr("<STATE>\nactivity->goal_set->Specific: \"Walk 15 minutes after lunch\"\nactivity->goal_set->Measurable: \"15 minutes\"\n</STATE>"),
       updates |-> <<Delta(<<"activity", "goal_set", "Specific">>, "Walk 15 minutes after lunch"),
                     Delta(<<"activity", "goal_set", "Measurable">>, "15 minutes")>>],
      [text |-> PyStr("<state>\nsession->agenda: 'sleep'\nsleep->barrier: noise\nsleep->goal_set->Reward: \"tea\"\n</state>"),
       updates |-> <<Delta(<<"session", "agenda">>, "sleep"),
                     Delta(<<"sleep", "barrier">>, "noise"),
                     Delta(<<"sleep", "goal_set", "Reward">>, "tea")>>] }

\* the update of the block that targets the path, if there is one
Targets(b, p) == {i \in 1..Len(b.updates) : b.updates[i].path = p}

\* the default of a leaf of generator.py
DefaultLeaf(p) ==
    IF p = <<"session", "agenda">>
    THEN PyStr("Choose one domain to focus on: activity, meal/nutrition, or sleep.")
    ELSE PyStr("")

\* the leaf at p of tree t is the value of the line of b that targets p,
\* and without such a line the leaf at p of tree n
MergedLeaf(t, b, n, p) ==
    /\ Present(t, p)
    /\ \A i \in Targets(b, p) : ValueAt(t, p) = PyStr(b.updates[i].value)
    /\ Targets(b, p) = {} => PyEq(ValueAt(t, p), ValueAt(n, p))

AllStored(t, deltas) ==
    \A i \in 1..Len(deltas) :
        Present(t, deltas[i].path) /\ ValueAt(t, deltas[i].path) = PyStr(deltas[i].value)

\* the last call was given the lines of ls on one line, joined by commas
CommaJoinedArg(ls) == \E sep \in CommaSeparators : arg = PyStr(JoinLines(ls, sep))

\* C15: comma-joined updates are un-flattened: untagged text that lists
\* several valid updates on one line, separated by commas that are each
\* followed by a path start, yields the same delta list, in the same order,
\* as the same updates written one per line: one delta per update, and
\* generator.apply_delta_text applies all of them.
C15_CommaJoinedAsLines ==
    \A ls \in UpdateLines(variant) :
        (Returned("apply_delta_text") /\ CommaJoinedArg(ls))
            => /\ ParsedArg = ParsedDeltas[variant][PyStr(JoinLines(ls, "\n"))]
               /\ Len(ParsedArg) = Len(ls)
               /\ variant = "generator" => AllStored(out.val, ParsedArg)

\* three updates joined by commas without a space have been applied, one of
\* them with a value that holds a comma itself
C15_Witness ==
    /\ variant = "generator"
    /\ Returned("apply_delta_text")
    /\ arg = PyStr("activity->progress: walked,sleep->barrier: 'noise',session->agenda: a, b")
    /\ Len(ParsedArg) = 3
    /\ ValueAt(out.val, <<"activity", "progress">>) = PyStr("walked")
    /\ ValueAt(out.val, <<"sleep", "barrier">>) = PyStr("noise")
    /\ ValueAt(out.val, <<"session", "agenda">>) = PyStr("a, b")

\* the pieces of a text between its separators ; | , /
RECURSIVE Pieces(_)
Pieces(s) ==
    LET n == Run(s, 1, CharsOf(s) \ SeparatorChars)
    IN  IF n = Len(s) THEN {s}
        ELSE {SubSeq(s, 1, n)} \cup Pieces(SubSeq(s, n + 2, Len(s)))

\* the deltas the last call merged
MergedDeltas == IF op = "apply_deltas" THEN arg.items ELSE ParsedArg

\* the tree holds text at the path, and one piece of it is the value up to
\* case
HoldsIgnoringCase(t, path, value) ==
    /\ Present(t, path)
    /\ ValueAt(t, path).k = "str"
    /\ \E x \in Pieces(ValueAt(t, path).s) : lower(x) = lower(value)

\* C16: case-insensitive dedup: in prompt_helper.py, when an append-policy
\* leaf already holds text one of whose separator-delimited tokens equals
\* the new value ignoring case (existing "too tired to cook", new "Too
\* Tired To Cook"), the merge leaves the leaf text unchanged.
C16_CaseInsensitiveDedup ==
    ( /\ variant = "prompt_helper"
      /\ Returned("apply_deltas") \/ Returned("apply_delta_text")
      /\ Len(MergedDeltas) = 1
      /\ MergedDeltas[1].path[2] \in {"barrier", "goal_set"}
      /\ HoldsIgnoringCase(pre, MergedDeltas[1].path, MergedDeltas[1].value) )
        => ValueAt(out.val, MergedDeltas[1].path) = ValueAt(pre, MergedDeltas[1].path)

\* the last call parsed the lines of ls with one sentinel line among them
SentinelArg(ls) ==
    \E i \in 0..Len(ls), n \in Sentinels : arg = PyStr(JoinLines(InsertLine(ls, i, n), "\n"))

\* the last call parsed the lines of ls between tags, a sentinel line after
\* the first of them
TaggedSentinelArg(ls) ==
    arg = PyStr("<STATE>\n" \o JoinLines(InsertLine(ls, 1, "NONE"), "\n") \o "\n</STATE>")

\* the last call parsed a body of whitespace and sentinels only, bare or
\* between tags
OnlySentinels ==
    arg \in {PyStr("NONE"), PyStr(" NONE \n"), PyStr("none\n \nNone"),
             PyStr("<STATE>\nnone\n</STATE>")}

\* C17: sentinel lines contribute nothing: a line NONE, in any casing, put
\* in at any position among otherwise valid update lines does not change the
\* delta list parse_and_clean_deltas returns, and a body of whitespace and
\* NONE only parses to the empty delta list.
C17_SentinelLinesIgnored ==
    op = "parse_and_clean_deltas"
        => /\ \A ls \in UpdateLines(variant) :
                (SentinelArg(ls) \/ TaggedSentinelArg(ls))
                    => out.val = PyDeltas(ParsedDeltas[variant][PyStr(JoinLines(ls, "\n"))])
           /\ OnlySentinels => out.val = PyDeltas(<<>>)

\* a text with a lower-case sentinel between two update lines has been
\* parsed to the two deltas of those lines
C17_Witness ==
    /\ variant = "generator"
    /\ op = "parse_and_clean_deltas"
    /\ arg = PyStr("nutrition->barrier: \"too tired\"\nnone\nnutrition->goal_set->Specific: \"meal prep\"")
    /\ out.val = PyDeltas(<<Delta(<<"nutrition", "barrier">>, "too tired"),
                            Delta(<<"nutrition", "goal_set", "Specific">>, "meal prep")>>)

\* the first position from i on where a STATE tag of the text starts (any
\* casing, inner whitespace, optional leading underscore), 0 if none
FirstTag(s, i, closing) ==
    LET hits == {j \in i..Len(s) : TagMatchLen(s, j, closing) > 0}
    IN  IF hits = {} THEN 0 ELSE CHOOSE j \in hits : \A h \in hits : j <= h

\* the complete tag pairs of the text from i on, left to right: an opening
\* tag with the first closing tag after it; each pair as the text between
RECURSIVE TagPairs(_, _)
TagPairs(s, i) ==
    LET a == FirstTag(s, i, FALSE)
        from == a + TagMatchLen(s, a, FALSE)
        b == IF a = 0 THEN 0 ELSE FirstTag(s, from, TRUE)
    IN  IF b = 0 THEN <<>>
        ELSE <<SubSeq(s, from, b - 1)>> \o TagPairs(s, b + TagMatchLen(s, b, TRUE))

\* the block body the Tag Normalizer is to return for a text
BlockOf(s) ==
    LET pairs == TagPairs(s, 1)
    IN  IF pairs # <<>> THEN PyStr(strip(pairs[Len(pairs)])) ELSE PyStr(strip(s))

\* C18: Tag Normalizer: when the text contains one or more complete
\* open/close STATE tag pairs (any casing, inner whitespace, optional
\* leading underscore), _extract_updates_body returns the trimmed text
\* between the last matching pair; when it contains no complete pair it
\* returns the whole trimmed text.
C18_LastBlockOrWholeText ==
    (op = "_extract_updates_body" /\ arg.k = "str" /\ strip(arg.s) # "")
        => out.val = BlockOf(arg.s)

\* the extractor output is empty, whitespace only, or not text
EmptyOrNotText(v) == v.k \in {"list", "dict"} \/ (v.k = "str" /\ strip(v.s) = "")

\* C19: for input that is empty or whitespace only, or not textual (a
\* mapping or a list instead of a string), _extract_updates_body returns the
\* absent value, so that such input yields no deltas and no error.
C19_NonTextIsAbsent ==
    /\ (op = "_extract_updates_body" /\ EmptyOrNotText(arg)) => out.val = PyNone
    /\ (op = "parse_and_clean_deltas" /\ EmptyOrNotText(arg))
          => out.err = NoErr /\ out.val = PyDeltas(<<>>)

\* C20: the Text Sanitizer is idempotent: for every block body b,
\* _sanitize_updates_text(_sanitize_updates_text(b)) equals
\* _sanitize_updates_text(b).
C20_SanitizerIdempotent ==
    op = "_sanitize_updates_text"
        => _sanitize_updates_text(variant, out.val.s) = out.val.s

\* every key path of the tree, through its nested mappings
RECURSIVE KeyPaths(_)
KeyPaths(v) ==
    IF v.k # "dict" THEN {}
    ELSE UNION {{<<key>>} \cup {<<key>> \o p : p \in KeyPaths(v.map[key])} :
                   key \in DOMAIN v.map}

\* the last call was apply_deltas with deltas that the validator of the
\* module rejects, all of them
RejectedDeltasCall ==
    /\ op = "apply_deltas"
    /\ arg.items # <<>>
    /\ \A i \in 1..Len(arg.items) : ~Accepts(variant, arg.items[i].path)

\* C22: apply_deltas keeps the tree inside the schema even for deltas that
\* did not pass the validator: given deltas whose path the validator rejects
\* (unknown root, unknown leaf, a path that descends through a string leaf),
\* the returned tree has no key that the normalized tree did not have, and
\* every schema leaf still holds the string it held before.
C22_RejectedDeltaKeepsSchema ==
    (RejectedDeltasCall /\ out.err = NoErr)
        => /\ KeyPaths(out.val) \subseteq KeyPaths(NormalizedPre.val)
           /\ \A p \in SchemaLeaves(variant) :
                 (Present(NormalizedPre.val, p) /\ ValueAt(NormalizedPre.val, p).k = "str")
                     => SameAt(out.val, NormalizedPre.val, p)

\* the last call was apply_deltas with deltas that the validator of the
\* module keeps
ValidDeltasCall == op = "apply_deltas" /\ AllAccepted(variant, arg.items)

\* the i-th delta of the last call is the last one of its path
LastOfItsPath(i) ==
    \A j \in (i + 1)..Len(arg.items) : arg.items[j].path # arg.items[i].path

\* C23: the overwrite policy is last-writer-wins: in generator.apply_deltas,
\* for any list of valid deltas, on a fresh tree or on the tree of earlier
\* merges, each overwrite leaf that a delta targets holds afterwards the
\* value of the last delta that targeted it, whatever it held before.
C23_LastWriterWins ==
    (variant = "generator" /\ ValidDeltasCall /\ out.err = NoErr)
        => \A i \in 1..Len(arg.items) :
              (arg.items[i].path \in SchemaLeaves(variant) /\ LastOfItsPath(i))
                  => /\ Present(out.val, arg.items[i].path)
                     /\ ValueAt(out.val, arg.items[i].path) = PyStr(arg.items[i].value)

\* a list with two deltas for session.agenda was applied to the tree of an
\* earlier merge that had stored other values at both leaves of the list
C23_Witness ==
    /\ variant = "generator"
    /\ ValidDeltasCall
    /\ out.err = NoErr
    /\ Len(arg.items) = 3
    /\ ~LastOfItsPath(1)
    /\ Present(pre, <<"sleep", "goal_set", "Reward">>)
    /\ ValueAt(pre, <<"sleep", "goal_set", "Reward">>) = PyStr("tea")
    /\ Present(pre, <<"session", "agenda">>)
    /\ ValueAt(pre, <<"session", "agenda">>) = PyStr("A")
    /\ ValueAt(out.val, <<"sleep", "goal_set", "Reward">>) = PyStr("gum")
    /\ ValueAt(out.val, <<"session", "agenda">>) = PyStr("C")

\* the tree holds the value at the path: as the text of the leaf, or within
\* the text of the leaf, in any casing
TookEffect(t, d) ==
    /\ Present(t, d.path)
    /\ ValueAt(t, d.path).k = "str"
    /\ \/ ValueAt(t, d.path).s = d.value
       \/ variant = "prompt_helper"
            /\ FindNoCase(ValueAt(t, d.path).s, 1, strip(d.value)) # 0

\* C28: every delta the validator accepts takes effect: for each (path,
\* value) with a value that is not empty that parse_and_clean_deltas returns
\* and no later delta of the list overwrites, the tree returned by the same
\* module's apply_deltas holds that value at that path (equal to it under
\* overwrite, containing it under append); no accepted delta is left
\* unapplied.
C28_AcceptedDeltaApplied ==
    Returned("apply_delta_text")
        => \A i \in 1..Len(ParsedArg) :
              ( /\ ParsedArg[i].value # ""
                /\ \A j \in (i + 1)..Len(ParsedArg) : ParsedArg[j].path # ParsedArg[i].path )
                  => TookEffect(out.val, ParsedArg[i])

\* the last call merged one delta, with a value that is not blank, into an
\* append-policy leaf of prompt_helper.py
OneAppendCall ==
    /\ variant = "prompt_helper"
    /\ Returned("apply_deltas") \/ Returned("apply_delta_text")
    /\ Len(MergedDeltas) = 1
    /\ MergedDeltas[1].path \in SchemaLeaves(variant)
    /\ MergedDeltas[1].path[2] \in {"barrier", "goal_set"}
    /\ strip(MergedDeltas[1].value) # ""

\* the leaf of the last call before the merge, as normalization leaves it
LeafBefore == ValueAt(NormalizedPre.val, MergedDeltas[1].path)

\* null, empty, or none / null / n/a in any casing, with whitespace around
SentinelEmpty(v) ==
    v.k = "none" \/ (v.k = "str" /\ lower(strip(v.s)) \in {"", "none", "null", "n/a"})

\* a token of the text equals the value, ignoring case
TokenMatches(s, value) == \E x \in Pieces(s) : lower(strip(x)) = lower(strip(value))

\* the text followed by the value: joined with "; ", or with one space when
\* the text ends in a separator
Appended(s, value) ==
    IF s # "" /\ Ch(s, Len(s)) \in SeparatorChars THEN s \o " " \o value
    ELSE s \o "; " \o value

\* C24: append policy of prompt_helper.py: when the existing leaf value is
\* sentinel-empty (null, empty, none / null / n/a in any casing, with
\* surrounding whitespace) the new value replaces it outright; otherwise,
\* when no token matches, the result is the existing text followed by the
\* new value, joined with "; ", or with a single space when the existing
\* text already ends in one of ; | , /.
C24_AppendPolicy ==
    (OneAppendCall /\ LeafBefore.k \in {"none", "str"})
        => IF SentinelEmpty(LeafBefore)
           THEN ValueAt(out.val, MergedDeltas[1].path) = PyStr(MergedDeltas[1].value)
           ELSE TokenMatches(LeafBefore.s, MergedDeltas[1].value)
                \/ ValueAt(out.val, MergedDeltas[1].path)
                     = PyStr(Appended(LeafBefore.s, MergedDeltas[1].value))

\* the last call was a merge of prompt_helper.py that returned
HelperMerge ==
    /\ variant = "prompt_helper"
    /\ Returned("apply_deltas") \/ Returned("apply_delta_text")

\* the deltas of the last call that apply_deltas stores under the append
\* policy: <domain>.barrier and <domain>.goal_set.<goal key>
AppendDeltas ==
    {i \in 1..Len(MergedDeltas) :
        /\ MergedDeltas[i].path \in SchemaLeaves(variant)
        /\ MergedDeltas[i].path[2] \in {"barrier", "goal_set"}}

\* max_len of the leaf at the path
LimitOf(path) == IF Len(path) = 2 THEN MaxLenBarrier ELSE MaxLenGoal

\* the text the append policy builds for the one delta of the last call
\* before it looks at the limit
Uncut ==
    IF SentinelEmpty(LeafBefore) THEN strip(MergedDeltas[1].value)
    ELSE IF TokenMatches(LeafBefore.s, MergedDeltas[1].value) THEN strip(LeafBefore.s)
    ELSE Appended(strip(LeafBefore.s), strip(MergedDeltas[1].value))

\* C25: bounded append leaves: after any merge in which
\* prompt_helper.apply_deltas applies a delta to barrier (limit 1000) or to
\* a goal_set key (limit 500), the text of that leaf is at most as long as
\* its limit, for any prior leaf text and any value, and it does not end in
\* whitespace when it was cut.
C25_AppendLeafBounded ==
    HelperMerge
        => \A i \in AppendDeltas :
              LET leaf == ValueAt(out.val, MergedDeltas[i].path)
              IN  leaf.k = "str"
                    => /\ Len(leaf.s) <= LimitOf(MergedDeltas[i].path)
                       /\ ( /\ Len(MergedDeltas) = 1
                            /\ LeafBefore.k \in {"none", "str"}
                            /\ leaf.s # ""
                            /\ Len(leaf.s) < Len(Uncut) )
                               => Ch(leaf.s, Len(leaf.s)) \notin SpaceChars

\* the right sides of the value rule: quoted with " and with ', bare, with
\* whitespace and commas around, between quotes of two kinds, with one
\* quote only, a single quote character, an empty pair, a colon inside
ValueSides ==
    { "\"x y\"", "'x y'", "x y", " x y ,,", "\"x y'", "'x y\"", "\"x y", "x y\"",
      "\"", "\"\"", "\"a: b\"" }

\* the right side with surrounding whitespace and trailing commas removed
Trimmed(side) == strip(rstrip_chars(strip(side), {","}))

\* the value of the rule: the outer characters go only when they are a
\* matching pair of quote characters
ValueByRule(side) ==
    LET v == Trimmed(side)
    IN  IF Len(v) >= 2 /\ Ch(v, 1) \in {"\"", "'"} /\ Ch(v, Len(v)) = Ch(v, 1)
        THEN SubSeq(v, 2, Len(v) - 1)
        ELSE v

\* C26: value rule of the Delta Line Parser: the right side of the first
\* colon, with surrounding whitespace and trailing commas removed, loses its
\* outer characters only when it is wrapped in a matching pair of quote
\* characters (both " or both '); a value that is unquoted or wrapped in a
\* mismatched pair is emitted unchanged.
C26_ValueRule ==
    op = "parse_and_clean_deltas"
        => \A side \in ValueSides :
              arg = PyStr("sleep->barrier: " \o side)
                  => out.val = PyDeltas(<<Delta(<<"sleep", "barrier">>, ValueByRule(side))>>)

\* update lines written with look-alikes of the arrow, the quotes and the
\* dash (the quotes and dashes are written with the characters that stand
\* for U+201C, U+201D, U+2019, U+2014 and U+2013), each with the same line
\* in ASCII
LookAlikeLines ==
    { [written |-> "sleep→barrier: «x»", ascii |-> "sleep->barrier: \"x\""],
      [written |-> "sleep➔goal_set➔Reward: «tea»", ascii |-> "sleep->goal_set->Reward: \"tea\""],
      [written |-> "sleep¯>barrier: ´a¬b´", ascii |-> "sleep->barrier: 'a-b'"],
      [written |-> "sleep->barrier: a¯b", ascii |-> "sleep->barrier: a-b"] }

\* C27: look-alike punctuation is normalized: an update line written with
\* Unicode look-alikes (an arrow glyph as path separator, smart quotes
\* around the value, en and em dashes) yields exactly the delta of the same
\* line written with ASCII ->, ", ' and -, in generator.py as in
\* prompt_helper.py.
C27_LookAlikesNormalized ==
    op = "parse_and_clean_deltas"
        => \A l \in LookAlikeLines :
              arg = PyStr(l.written)
                  => /\ out.val = PyDeltas(ParsedDeltas[variant][PyStr(l.ascii)])
                     /\ Len(out.val.items) = 1

\* values without line break and without quote character: plain words,
\* a comma, whitespace at the ends, a colon, and words that the sanitizer
\* looks for in paths (a synonym of goal_set, an arrow with spaces, a
\* domain name in another casing, a comma before a path)
PlainValues ==
    { "walk 15 min", "a, b", " x ", "a: b", "goal set", "x -> y", "Sleep",
      "walk, sleep->barrier: z" }

\* C29: values pass through the pipeline verbatim: for a single line
\* <valid path>: "v", v without line break and without quote character,
\* parse_and_clean_deltas returns exactly one delta, and its value is v
\* character for character; the rewrites of the sanitizer change only the
\* path, never the value.
C29_ValueVerbatim ==
    op = "parse_and_clean_deltas"
        => \A v \in PlainValues :
              arg = PyStr("sleep->barrier: \"" \o v \o "\"")
                  => out.val = PyDeltas(<<Delta(<<"sleep", "barrier">>, v)>>)

----------------------------------------------------------------------------
(* C21 *)

\* v with the keys of every mapping in it inserted in the opposite order:
\* a tree of equal contents
RECURSIVE ReverseKeys(_)
ReverseKeys(v) ==
    IF v.k = "dict"
    THEN [k |-> "dict",
          order |-> [i \in 1..Len(v.order) |-> v.order[Len(v.order) + 1 - i]],
          map |-> [key \in DOMAIN v.map |-> ReverseKeys(v.map[key])]]
    ELSE IF v.k = "list"
    THEN [k |-> "list", items |-> [i \in 1..Len(v.items) |-> ReverseKeys(v.items[i])]]
    ELSE v

\* C21: serialization is canonical.  The text state_to_text returned for a
\* tree is the text it returns for every tree of equal contents, whatever
\* the order in which the keys of that tree were inserted and whatever the
\* run (the iteration order of the schema's sets) that serializes it.
C21_SerializationCanonical ==
    Returned("state_to_text")
        => \A o \in DomainOrders(variant) : \A t \in {pre, ReverseKeys(pre)} :
              /\ PyEq(t, pre)
              /\ Call_state_to_text(variant, o, t).err = NoErr
              /\ Call_state_to_text(variant, o, t).val = out.val

----------------------------------------------------------------------------
(* C30 *)

\* the session start_new_chat_action added last, and the session of the
\* chat tab
StartedKey ==
    <<app.conversations[Len(app.conversations)].date,
      app.conversations[Len(app.conversations)].index>>
TabKey == <<app.chat_meta_state.date, app.chat_meta_state.index>>

\* the CST file of session key has every schema leaf of the CST t, but for
\* session.session_timestamp
CarriesOver(key, t) ==
    \A p \in SchemaLeaves("generator") \ {<<"session", "session_timestamp">>} :
        Present(t, p) => SameAt(app.csts[key], t, p)

\* C30: state carries over across sessions.  Whatever the interleaving of
\* start, continue, send and end: after start_new_chat_action the started
\* session has a CST file, the seed, and when other CST files were saved
\* before it the seed carries one of them (the most recently saved) over
\* with only session.session_timestamp replaced; after chat_send_action the
\* session of the chat tab has a CST file as well.
C30_StateCarriesOver ==
    /\ op = "start_new_chat_action"
          => /\ out.err = NoErr
             /\ StartedKey \in DOMAIN app.csts
             /\ \/ DOMAIN app.csts = {StartedKey}
                \/ \E k \in DOMAIN app.csts \ {StartedKey} : CarriesOver(StartedKey, app.csts[k])
    /\ op = "chat_send_action" => TabKey \in DOMAIN app.csts

====
